---------------------------- MODULE Spec2Model ----------------------------
(***************************************************************************)
(* A model of the FFI export parser (ffi_reader/base.py and its drivers).  *)
(*                                                                         *)
(* Text values are sequences of one-character strings, so that the string  *)
(* operations of the code (slicing, upper-casing, regular-expression       *)
(* filtering, decimal formatting) are computed and not assumed.            *)
(***************************************************************************)
EXTENDS Integers, Sequences, FiniteSets, TLC

VARIABLES
    dn,       \* to_datenum: the last call, [arg, ret]
    frame,    \* the XMLFrame under work: [name, cols, rows, pivot] or NoFrame
    fcall,    \* the last XMLFrame operation: its inputs, its result, its error
    db,       \* the destination database as its other sessions see it
    wr,       \* the to_sql call under way or last returned
    drv,      \* the driver: its documents, its place in the current one
    ns,      \* normalize_string: the last call and the call on its result
    ffi      \* the FFIFile under construction

vars == <<dn, frame, fcall, db, wr, drv, ns, ffi>>

-----------------------------------------------------------------------------
(* Text helpers                                                            *)

\* pandas' missing value (None / NaN) in a cell
Null == <<"<null>">>

LowerChars == <<"a","b","c","d","e","f","g","h","i","j","k","l","m",
                "n","o","p","q","r","s","t","u","v","w","x","y","z">>
UpperChars == <<"A","B","C","D","E","F","G","H","I","J","K","L","M",
                "N","O","P","Q","R","S","T","U","V","W","X","Y","Z">>
DigitChars == <<"0","1","2","3","4","5","6","7","8","9">>

Range(s) == {s[i] : i \in DOMAIN s}

IsDigit(c) == c \in Range(DigitChars)
IsUpper(c) == c \in Range(UpperChars)
IsLower(c) == c \in Range(LowerChars)
\* the regular-expression class \w
IsWordChar(c) == IsDigit(c) \/ IsUpper(c) \/ IsLower(c) \/ c = "_"

\* str.upper() on one character
UpperChar(c) ==
    IF IsLower(c)
    THEN UpperChars[CHOOSE i \in DOMAIN LowerChars : LowerChars[i] = c]
    ELSE c
\* str.upper()
StrUpper(s) == [i \in DOMAIN s |-> UpperChar(s[i])]

\* str.lower() on one character
LowerChar(c) ==
    IF IsUpper(c)
    THEN LowerChars[CHOOSE i \in DOMAIN UpperChars : UpperChars[i] = c]
    ELSE c
\* str.lower()
StrLower(s) == [i \in DOMAIN s |-> LowerChar(s[i])]

\* s.replace(c, '') for every c of cs
StrRemove(s, cs) == SelectSeq(s, LAMBDA c : c \notin cs)

\* s[:n]
StrPrefix(s, n) == SubSeq(s, 1, IF Len(s) < n THEN Len(s) ELSE n)

\* int() of a digit string
DigitVal(c) == (CHOOSE i \in DOMAIN DigitChars : DigitChars[i] = c) - 1
RECURSIVE StrToInt(_)
StrToInt(s) ==
    IF s = <<>> THEN 0
    ELSE 10 * StrToInt(SubSeq(s, 1, Len(s) - 1)) + DigitVal(s[Len(s)])

\* str() of an integer
RECURSIVE NatToStr(_)
NatToStr(n) ==
    IF n < 10 THEN <<DigitChars[n + 1]>>
    ELSE NatToStr(n \div 10) \o <<DigitChars[(n % 10) + 1]>>
IntToStr(n) == IF n < 0 THEN <<"-">> \o NatToStr(0 - n) ELSE NatToStr(n)

-----------------------------------------------------------------------------
(* to_datenum                                                              *)

\* datetime.date: _is_leap, _days_before_year, _days_in_month, toordinal
IsLeap(y) == (y % 4 = 0) /\ ((y % 100 # 0) \/ (y % 400 = 0))
DaysInMonth(y, m) ==
    IF m = 2 THEN (IF IsLeap(y) THEN 29 ELSE 28)
    ELSE IF m \in {4, 6, 9, 11} THEN 30 ELSE 31
DaysBeforeYear(y) ==
    (y - 1) * 365 + ((y - 1) \div 4) - ((y - 1) \div 100) + ((y - 1) \div 400)
RECURSIVE DaysBeforeMonth(_, _)
DaysBeforeMonth(y, m) ==
    IF m = 1 THEN 0 ELSE DaysBeforeMonth(y, m - 1) + DaysInMonth(y, m - 1)
ToOrdinal(y, m, d) == DaysBeforeYear(y) + DaysBeforeMonth(y, m) + d
\* date(y, m, d) raises ValueError outside these ranges
ValidDate(y, m, d) ==
    /\ y \in 1..9999
    /\ m \in 1..12
    /\ d \in 1..DaysInMonth(y, m)

\* the pattern (\d{4})-(\d{2})-(\d{2}) matched at position i of s
DateMatchAt(s, i) ==
    /\ i + 9 <= Len(s)
    /\ \A k \in {0, 1, 2, 3, 5, 6, 8, 9} : IsDigit(s[i + k])
    /\ s[i + 4] = "-"
    /\ s[i + 7] = "-"
DateMatches(s) == {i \in 1..Len(s) : DateMatchAt(s, i)}
MinOf(S) == CHOOSE i \in S : \A j \in S : i <= j

\* offset = 693595
DateOffset == 693595

\* to_datenum(datetime): the date number as text, or the error it raises
to_datenum(s) ==
    IF s = Null THEN [err |-> "TypeError", val |-> <<>>]
    ELSE IF DateMatches(s) = {} THEN [err |-> "IndexError", val |-> <<>>]
    ELSE LET i == MinOf(DateMatches(s))
             y == StrToInt(SubSeq(s, i, i + 3))
             m == StrToInt(SubSeq(s, i + 5, i + 6))
             d == StrToInt(SubSeq(s, i + 8, i + 9))
         IN  IF ~ValidDate(y, m, d) THEN [err |-> "ValueError", val |-> <<>>]
             ELSE [err |-> "none",
                   val |-> IntToStr(ToOrdinal(y, m, d) - DateOffset)]


-----------------------------------------------------------------------------
(* parse_camelcase and normalize_string                                    *)

\* prev, char and next_char at index i of txt ('' outside the text, which is
\* neither upper nor lower case); a new segment starts at i when the case
\* changes there
SegmentStart(txt, i) ==
    LET prevUp == i > 1 /\ IsUpper(txt[i - 1])
        prevLow == i > 1 /\ IsLower(txt[i - 1])
        nextLow == i < Len(txt) /\ IsLower(txt[i + 1])
    IN  (prevUp /\ IsUpper(txt[i]) /\ nextLow) \/ (prevLow /\ IsUpper(txt[i]))

\* parse_camelcase(txt): the segments in lower case, joined by "_"
RECURSIVE parse_camelcase_from(_, _)
parse_camelcase_from(txt, i) ==
    IF i > Len(txt) THEN <<>>
    ELSE (IF SegmentStart(txt, i) THEN <<"_">> ELSE <<>>)
            \o <<LowerChar(txt[i])>> \o parse_camelcase_from(txt, i + 1)
parse_camelcase(txt) == parse_camelcase_from(txt, 1)

\* the end of the longest run of \w characters of s that starts at i
RECURSIVE WordRunEnd(_, _)
WordRunEnd(s, i) ==
    IF i <= Len(s) /\ IsWordChar(s[i]) THEN WordRunEnd(s, i + 1) ELSE i
\* the pattern \(\w+\) matched at position i of s
ParenMatchAt(s, i) ==
    /\ s[i] = "("
    /\ WordRunEnd(s, i + 1) > i + 1
    /\ WordRunEnd(s, i + 1) <= Len(s)
    /\ s[WordRunEnd(s, i + 1)] = ")"
\* sub(r'\(\w+\)', '', s) from position i: one pass from the left, the
\* matches not overlapping
RECURSIVE SubParens(_, _)
SubParens(s, i) ==
    IF i > Len(s) THEN <<>>
    ELSE IF ParenMatchAt(s, i) THEN SubParens(s, WordRunEnd(s, i + 1) + 1)
    ELSE <<s[i]>> \o SubParens(s, i + 1)

normalize_string(string) ==
    LET temp1 == StrRemove(string, {" ", ".", "-"})
        temp2 == SubParens(temp1, 1)
    IN  parse_camelcase(temp2)

-----------------------------------------------------------------------------
(* DataFrame: a set of column names and a sequence of rows, each row a     *)
(* function from the column names to cells                                 *)

EmptyDF == [cols |-> {}, rows |-> <<>>]

\* df[col] = vals, for a new or an existing column; vals holds one cell a row
SetCol(df, col, vals) ==
    CHOOSE r \in {[cols |-> d.cols \cup {col},
                   rows |-> [i \in DOMAIN d.rows |->
                               [k \in d.cols \cup {col} |->
                                  IF k = col THEN v[i] ELSE d.rows[i][k]]]] :
                  d \in {df}, v \in {vals}} : TRUE

\* df[cols]
SelectCols(df, cs) ==
    [cols |-> cs,
     rows |-> [i \in DOMAIN df.rows |-> [k \in cs |-> df.rows[i][k]]]]

\* DataFrame.drop_duplicates(keep='first')
RECURSIVE KeepFirst(_)
KeepFirst(rows) ==
    IF rows = <<>> THEN <<>>
    ELSE LET init == KeepFirst(SubSeq(rows, 1, Len(rows) - 1))
             last == rows[Len(rows)]
         IN  IF last \in Range(init) THEN init ELSE Append(init, last)
DropDuplicatesDF(df) == [cols |-> df.cols, rows |-> KeepFirst(df.rows)]

\* the first error of a sequence of results, "none" when there is none
FirstErr(errs) ==
    IF \A i \in DOMAIN errs : errs[i] = "none" THEN "none"
    ELSE errs[MinOf({i \in DOMAIN errs : errs[i] # "none"})]

-----------------------------------------------------------------------------
(* XMLFrame._create_ids                                                    *)

\* a plot fragment that keeps the hyphens of the name
NormPlotWithHyphens(v) ==
    StrRemove(StrUpper(SelectSeq(v, LAMBDA c : IsWordChar(c) \/ c = "-")), {"_", " "})

\* norm_plot: ''.join(findall(r'\w+', v)).upper() without '-', '_', ' '
NormPlot(v) == StrRemove(StrUpper(SelectSeq(v, IsWordChar)), {"-", "_", " "})
\* norm_admin: v[:5].upper() without '-', '_', ' '
NormAdmin(v) == StrRemove(StrUpper(StrPrefix(v, 5)), {"-", "_", " "})

\* '-'.join(parts)
RECURSIVE JoinDash(_)
JoinDash(parts) ==
    IF Len(parts) = 0 THEN <<>>
    ELSE IF Len(parts) = 1 THEN parts[1]
    ELSE JoinDash(SubSeq(parts, 1, Len(parts) - 1)) \o <<"-">> \o parts[Len(parts)]

\* a key that also reads a column outside col_list
id_str_with_date_in(row, col_list, no_date) ==
    IF \E i \in DOMAIN col_list : col_list[i] \notin DOMAIN row
    THEN [err |-> "KeyError", val |-> <<>>]
    ELSE IF row[col_list[2]] = Null \/ row[col_list[3]] = Null
    THEN [err |-> "TypeError", val |-> <<>>]
    ELSE LET src == IF "MacroPlot_DateIn" \in DOMAIN row
                    THEN row["MacroPlot_DateIn"] ELSE row[col_list[1]]
             d == to_datenum(src)
         IN  IF d.err # "none" THEN [err |-> d.err, val |-> <<>>]
             ELSE [err |-> "none",
                   val |-> JoinDash(<<NormAdmin(row[col_list[3]]),
                                      NormPlot(row[col_list[2]])>>
                                    \o (IF no_date THEN <<>> ELSE <<d.val>>))]

\* a key without the fragment of the admin unit
id_str_plot_only(row, col_list, no_date) ==
    IF \E i \in DOMAIN col_list : col_list[i] \notin DOMAIN row
    THEN [err |-> "KeyError", val |-> <<>>]
    ELSE IF row[col_list[2]] = Null \/ row[col_list[3]] = Null
    THEN [err |-> "TypeError", val |-> <<>>]
    ELSE IF no_date
    THEN [err |-> "none", val |-> NormPlot(row[col_list[2]])]
    ELSE LET d == to_datenum(row[col_list[1]])
         IN  IF d.err # "none" THEN [err |-> d.err, val |-> <<>>]
             ELSE [err |-> "none",
                   val |-> JoinDash(<<NormPlot(row[col_list[2]]), d.val>>)]

\* id_str(row, col_list, no_date): the key of one row, or the error raised
id_str(row, col_list, no_date) ==
    IF Len(col_list) # 3 THEN [err |-> "none", val |-> <<>>]
    ELSE IF \E i \in DOMAIN col_list : col_list[i] \notin DOMAIN row
    THEN [err |-> "KeyError", val |-> <<>>]
    ELSE IF row[col_list[2]] = Null \/ row[col_list[3]] = Null
    THEN [err |-> "TypeError", val |-> <<>>]
    ELSE IF no_date
    THEN [err |-> "none",
          val |-> JoinDash(<<NormAdmin(row[col_list[3]]),
                             NormPlot(row[col_list[2]])>>)]
    ELSE LET d == to_datenum(row[col_list[1]])
         IN  IF d.err # "none" THEN [err |-> d.err, val |-> <<>>]
             ELSE [err |-> "none",
                   val |-> JoinDash(<<NormAdmin(row[col_list[3]]),
                                      NormPlot(row[col_list[2]]), d.val>>)]

EventIdCols == <<"SampleEvent_Date", "MacroPlot_Name", "RegistrationUnit_Name">>
PlotIdCols == <<"MacroPlot_DateIn", "MacroPlot_Name", "RegistrationUnit_Name">>

\* df[col] = df.apply(lambda row: id_str(row, cols, no_date), axis=1)
ApplyIds(df, col, cols, no_date) ==
    CHOOSE r \in {
       LET err == FirstErr([i \in DOMAIN res |-> res[i].err])
       IN  IF err # "none" THEN [err |-> err, df |-> df]
           ELSE [err |-> "none",
                 df |-> SetCol(df, col, [i \in DOMAIN res |-> res[i].val])] :
       res \in {[i \in DOMAIN df.rows |-> id_str(df.rows[i], cols, no_date)]}} : TRUE

\* _create_ids: EventID for "sampling_event", PlotID for "plot", KeyError else
CreateIds(name, df) ==
    IF name = "sampling_event" THEN ApplyIds(df, "EventID", EventIdCols, FALSE)
    ELSE IF name = "plot" THEN ApplyIds(df, "PlotID", PlotIdCols, TRUE)
    ELSE [err |-> "KeyError", df |-> df]

\* src/base.py, the earlier generation of the library (xml_parser.py imports
\* it): the plot fragment keeps its case and its underscores, the admin
\* fragment its separators, and the date number is part of every key
LegacyNormPlot(v) == SelectSeq(v, IsWordChar)
LegacyNormAdmin(v) == StrUpper(StrPrefix(v, 5))
legacy_id_str(row, col_list) ==
    IF Len(col_list) # 3 THEN [err |-> "none", val |-> <<>>]
    ELSE IF \E i \in DOMAIN col_list : col_list[i] \notin DOMAIN row
    THEN [err |-> "KeyError", val |-> <<>>]
    ELSE IF row[col_list[2]] = Null THEN [err |-> "TypeError", val |-> <<>>]
    ELSE LET d == to_datenum(row[col_list[1]])
         IN  IF d.err # "none" THEN [err |-> d.err, val |-> <<>>]
             ELSE IF row[col_list[3]] = Null THEN [err |-> "TypeError", val |-> <<>>]
             ELSE [err |-> "none",
                   val |-> JoinDash(<<LegacyNormAdmin(row[col_list[3]]),
                                      LegacyNormPlot(row[col_list[2]]), d.val>>)]

LegacyApplyIds(df, col, cols) ==
    LET res == [i \in DOMAIN df.rows |-> legacy_id_str(df.rows[i], cols)]
        err == FirstErr([i \in DOMAIN res |-> res[i].err])
    IN  IF err # "none" THEN [err |-> err, df |-> df]
        ELSE [err |-> "none",
              df |-> SetCol(df, col, [i \in DOMAIN res |-> res[i].val])]

LegacyCreateIds(name, df) ==
    IF name = "sampling_event" THEN LegacyApplyIds(df, "EventID", EventIdCols)
    ELSE IF name = "plot" THEN LegacyApplyIds(df, "PlotID", PlotIdCols)
    ELSE [err |-> "KeyError", df |-> df]

-----------------------------------------------------------------------------
(* XMLFrame._create_monitoring_status                                      *)

\* str(v) of a cell: the text itself, 'nan' for a missing value
StrOf(v) == IF v = Null THEN <<"n", "a", "n">> ELSE v

\* sub in s
Contains(s, sub) ==
    \E i \in 1..(Len(s) - Len(sub) + 1) : SubSeq(s, i, i + Len(sub) - 1) = sub

\* findall(r'(\d+)', s): the maximal runs of digits, left to right
RECURSIVE DigitRunsFrom(_, _)
DigitRunsFrom(s, i) ==
    IF i > Len(s) THEN <<>>
    ELSE IF ~IsDigit(s[i]) THEN DigitRunsFrom(s, i + 1)
    ELSE LET j == MinOf({k \in i..Len(s) : k = Len(s) \/ ~IsDigit(s[k + 1])})
         IN  <<SubSeq(s, i, j)>> \o DigitRunsFrom(s, j + 1)
DigitRuns(s) == DigitRunsFrom(s, 1)

\* str(row[col]).lower() when the column is there, '' otherwise
LowerField(row, col) ==
    IF col \in DOMAIN row THEN StrLower(StrOf(row[col])) ELSE <<>>

StatusFields == <<"MonitoringStatus_Prefix", "MonitoringStatus_Base",
                  "MonitoringStatus_Suffix", "SampleEvent_DefaultMonitoringStatus">>

AnyFieldContains(row, word) ==
    \E i \in DOMAIN StatusFields : Contains(LowerField(row, StatusFields[i]), word)

prefix_str(row) ==
    IF AnyFieldContains(row, <<"p", "o", "s", "t">>) THEN <<"P", "o", "s", "t">>
    ELSE IF AnyFieldContains(row, <<"p", "r", "e">>) THEN <<"P", "r", "e">>
    ELSE <<>>

\* the first branch with "'treatment' in default" as its last operand
base_str_by_content(row) ==
    IF AnyFieldContains(row, <<"t","r","e","a","t","m","e","n","t">>)
    THEN <<"T","r","e","a","t","m","e","n","t">>
    ELSE IF AnyFieldContains(row, <<"m","e","a","s","u","r","e">>)
    THEN <<"M","e","a","s","u","r","e">>
    ELSE IF AnyFieldContains(row, <<"b","u","r","n">>) THEN <<"B","u","r","n">>
    ELSE <<>>

\* the condition of the first branch ends in "or 'treatment' or default": a
\* non-empty literal, which is true
base_str(row) ==
    IF \/ Contains(LowerField(row, "MonitoringStatus_Base"), <<"t","r","e","a","t","m","e","n","t">>)
       \/ Contains(LowerField(row, "MonitoringStatus_Suffix"), <<"t","r","e","a","t","m","e","n","t">>)
       \/ Contains(LowerField(row, "MonitoringStatus_Prefix"), <<"t","r","e","a","t","m","e","n","t">>)
       \/ Len(<<"t","r","e","a","t","m","e","n","t">>) > 0
       \/ Len(LowerField(row, "SampleEvent_DefaultMonitoringStatus")) > 0
    THEN <<"T","r","e","a","t","m","e","n","t">>
    ELSE IF AnyFieldContains(row, <<"m","e","a","s","u","r","e">>)
    THEN <<"M","e","a","s","u","r","e">>
    ELSE IF AnyFieldContains(row, <<"b","u","r","n">>) THEN <<"B","u","r","n">>
    ELSE <<>>

\* re_str is False, or a list of digit runs
ReFalse == [set |-> FALSE, runs |-> <<>>]
ReTruthy(re) == re.set /\ Len(re.runs) > 0
\* "if re_str and len(re_str) == 0: re_str = findall(...)"
ReRetry(re, absent, text) ==
    IF ~absent /\ ReTruthy(re) /\ Len(re.runs) = 0
    THEN [set |-> TRUE, runs |-> DigitRuns(text)]
    ELSE re

time_str(row) ==
    LET RawNa(col) == col \notin DOMAIN row \/ row[col] = Null
        suffixNa == RawNa("MonitoringStatus_Suffix")
        prefixNa == RawNa("MonitoringStatus_Prefix")
        baseNa == "MonitoringStatus_Base" \notin DOMAIN row
        defaultNa == "SampleEvent_DefaultMonitoringStatus" \notin DOMAIN row
        re0 == IF ~defaultNa
               THEN [set |-> TRUE,
                     runs |-> DigitRuns(LowerField(row, "SampleEvent_DefaultMonitoringStatus"))]
               ELSE ReFalse
        re1 == ReRetry(re0, prefixNa, IF prefixNa THEN <<>> ELSE row["MonitoringStatus_Prefix"])
        re2 == IF ~suffixNa
               THEN ReRetry(re1, suffixNa, IF suffixNa THEN <<>> ELSE row["MonitoringStatus_Suffix"])
               ELSE ReRetry(re1, baseNa, LowerField(row, "MonitoringStatus_Base"))
    IN  IF suffixNa /\ baseNa THEN <<>>
        ELSE IF ~ReTruthy(re2) THEN <<>>
        ELSE IF Len(re2.runs[1]) <= 2 THEN re2.runs[1] \o <<"y", "e", "a", "r">>
        ELSE <<>>

DerivedStatusCols == {"status_prefix", "monitoring_type", "time_frame", "monitoring_status"}

\* the four derived columns; the "monitoring_status" role is deduplicated
DeriveStatus(name, df) ==
    CHOOSE r \in {
       [err |-> "none",
        df |-> IF name = "monitoring_status" THEN DropDuplicatesDF(d4) ELSE d4,
        columns |-> d4.cols] :
       d4 \in {SetCol(d3, "monitoring_status",
                      [i \in DOMAIN df.rows |->
                         time_str(df.rows[i]) \o prefix_str(df.rows[i])
                         \o base_str(df.rows[i])]) :
               d3 \in {SetCol(d2, "time_frame",
                              [i \in DOMAIN df.rows |-> time_str(df.rows[i])]) :
                       d2 \in {SetCol(d1, "monitoring_type",
                                      [i \in DOMAIN df.rows |-> base_str(df.rows[i])]) :
                               d1 \in {SetCol(df, "status_prefix",
                                              [i \in DOMAIN df.rows |->
                                                 prefix_str(df.rows[i])])}}}}} : TRUE

\* the condition on the fields of the frame instead of on its role
CreateMonitoringStatusByColumns(name, columns, df) ==
    IF columns \cap Range(StatusFields) # {} /\ columns \cap DerivedStatusCols = {}
    THEN DeriveStatus(name, df)
    ELSE [err |-> "ValueError", df |-> df, columns |-> columns]

\* _create_monitoring_status: the four derived columns, for the two roles that
\* have them and only when none of them is among self.columns; ValueError else
CreateMonitoringStatus(name, columns, df) ==
    IF name \in {"monitoring_status", "sampling_event"} /\ columns \cap DerivedStatusCols = {}
    THEN DeriveStatus(name, df)
    ELSE [err |-> "ValueError", df |-> df, columns |-> columns]

\* src/base.py: the condition is on the columns, not on the role
LegacyCreateMonitoringStatus(name, columns, df) ==
    IF columns \cap Range(StatusFields) # {} /\ columns \cap DerivedStatusCols = {}
    THEN DeriveStatus(name, df)
    ELSE [err |-> "ValueError", df |-> df, columns |-> columns]

-----------------------------------------------------------------------------
(* XMLFrame: construction and projection                                   *)

\* the two generations of the library: ffi_reader/base.py, which xml_to_rdb.py
\* imports, and base.py, which xml_parser.py imports
Libs == {"ffi_reader", "legacy"}

\* an XMLFrame object of the class of one library; pivoted = FALSE stands for
\* self.pivot = None
MkFrame(lib, name, df, columns, method_type) ==
    [lib |-> lib, name |-> name, df |-> df, columns |-> columns,
     pivoted |-> FALSE, pivot |-> <<>>, method_type |-> method_type]

NoFrame == MkFrame("<none>", "<none>", EmptyDF, {}, FALSE)

\* XMLFrame.__init__ for the roles other than event_detail and method_data,
\* over data of at least one row (for those roles _process_attr_name and
\* _process_attr_value raise ValueError on the first row and are skipped).
\* _create_ids is skipped on KeyError only; any other error leaves the
\* constructor.
XMLFrameInit(name, data, method_type, skip_id) ==
    IF skip_id
    THEN [err |-> "none",
          xf |-> MkFrame("ffi_reader", name, data, data.cols, method_type)]
    ELSE CHOOSE r \in {
            IF ids.err \notin {"none", "KeyError"}
            THEN [err |-> ids.err, xf |-> NoFrame]
            ELSE CHOOSE q \in {
                    [err |-> "none",
                     xf |-> MkFrame("ffi_reader", name, ms.df, ms.columns,
                                    method_type)] :
                    ms \in {CreateMonitoringStatus(name, data.cols, ids.df)}} : TRUE :
            ids \in {CreateIds(name, data)}} : TRUE

\* XMLFrame.__init__ of src/base.py, for the same roles and data
LegacyXMLFrameInit(name, data, method_type, skip_id) ==
    IF skip_id
    THEN [err |-> "none",
          xf |-> MkFrame("legacy", name, data, data.cols, method_type)]
    ELSE LET ids == LegacyCreateIds(name, data)
         IN  IF ids.err \notin {"none", "KeyError"}
             THEN [err |-> ids.err, xf |-> NoFrame]
             ELSE LET ms == LegacyCreateMonitoringStatus(name, data.cols, ids.df)
                  IN  [err |-> "none",
                       xf |-> MkFrame("legacy", name, ms.df, ms.columns,
                                      method_type)]

\* XMLFrame(...) as the module that imported the class resolves it
NewXMLFrame(lib, name, data, method_type, skip_id) ==
    IF lib = "legacy" THEN LegacyXMLFrameInit(name, data, method_type, skip_id)
    ELSE XMLFrameInit(name, data, method_type, skip_id)

\* a projection request: a list of names (to = the identity) or a mapping
ListReq(cs) == [kind |-> "list", cols |-> cs, to |-> [c \in cs |-> c]]
DictReq(m) == [kind |-> "dict", cols |-> DOMAIN m, to |-> m]

\* __getitem__ without the except branch: an absent column is a KeyError
GetItemNoDefault(xf, req) ==
    IF req.cols \subseteq xf.df.cols
    THEN [err |-> "none", src |-> xf,
          res |-> NewXMLFrame(xf.lib, xf.name,
                               [cols |-> {req.to[c] : c \in req.cols},
                                rows |-> [i \in DOMAIN xf.df.rows |->
                                            [k \in {req.to[c] : c \in req.cols} |->
                                               xf.df.rows[i][CHOOSE c \in req.cols : req.to[c] = k]]]],
                               FALSE, TRUE).xf]
    ELSE [err |-> "KeyError", src |-> xf, res |-> NoFrame]

\* df[col] = None for every col of cs
AddNullCols(df, cs) ==
    CHOOSE r \in {[cols |-> d.cols \cup cs,
                   rows |-> [i \in DOMAIN d.rows |->
                               [k \in d.cols \cup cs |->
                                  IF k \in cs THEN Null ELSE d.rows[i][k]]]] :
                  d \in {df}} : TRUE

\* df[cols].rename(to, axis=1)
SelectRenamed(df, req) ==
    CHOOSE r \in {[cols |-> {req.to[c] : c \in req.cols},
                   rows |-> [i \in DOMAIN d.rows |->
                               [k \in {req.to[c] : c \in req.cols} |->
                                  d.rows[i][CHOOSE c \in req.cols : req.to[c] = k]]]] :
                  d \in {df}} : TRUE

\* __getitem__(cols): the columns absent from self.df are first added to it,
\* all None; the selection is renamed under a mapping and wrapped in a new
\* XMLFrame of the same name with skip_id=True
GetItem(xf, req) ==
    [err |-> "none",
     src |-> [xf EXCEPT !.df = AddNullCols(xf.df, req.cols \ xf.df.cols)],
     res |-> NewXMLFrame(xf.lib, xf.name,
                          SelectRenamed(AddNullCols(xf.df, req.cols \ xf.df.cols), req),
                          FALSE, TRUE).xf]

-----------------------------------------------------------------------------
(* XMLFrame.drop_duplicates and XMLFrame.drop_duplicate_fields             *)

\* subset=None: every column takes part in the comparison
NoSubset == {"<None>"}
SubsetCols(df, subset) == IF subset = NoSubset THEN df.cols ELSE subset

\* DataFrame.duplicated(keep=...) over the columns cs: the mask, one Boolean a
\* row; missing values compare equal
Duplicated(rows, cs, keep) ==
    LET Same(i, j) == \A c \in cs : rows[i][c] = rows[j][c]
    IN  [i \in DOMAIN rows |->
           CASE keep = "first" -> \E j \in 1..(i - 1) : Same(i, j)
             [] keep = "last" -> \E j \in (i + 1)..Len(rows) : Same(i, j)
             [] OTHER -> \E j \in DOMAIN rows : j # i /\ Same(i, j)]

\* df[~dups]: the rows the mask does not mark, in their order
RECURSIVE DropMasked(_, _, _)
DropMasked(rows, dups, i) ==
    IF i > Len(rows) THEN <<>>
    ELSE (IF dups[i] THEN <<>> ELSE <<rows[i]>>) \o DropMasked(rows, dups, i + 1)

\* DataFrame.drop_duplicates(inplace=True, keep=keep, subset=subset)
DfDropDuplicates(df, keep, subset) ==
    IF ~(SubsetCols(df, subset) \subseteq df.cols)
    THEN [err |-> "KeyError", df |-> df]
    ELSE [err |-> "none",
          df |-> [cols |-> df.cols,
                  rows |-> DropMasked(df.rows,
                                      Duplicated(df.rows, SubsetCols(df, subset), keep),
                                      1)]]

\* XMLFrame.drop_duplicates with keep='last'
DropDuplicatesKeepLast(xf, subset) ==
    LET r == DfDropDuplicates(xf.df, "last", subset)
    IN  [err |-> r.err, xf |-> [xf EXCEPT !.df = r.df]]

\* XMLFrame.drop_duplicates(subset=subset) as the table recipes call it, keep
\* and inplace at their defaults ('first', True)
DropDuplicates(xf, subset) ==
    LET r == DfDropDuplicates(xf.df, "first", subset)
    IN  [err |-> r.err, xf |-> [xf EXCEPT !.df = r.df]]

\* XMLFrame.drop_duplicate_fields(*args); args is <<>> or <<idx>>, idx the
\* index columns
DropDuplicateFields(xf, args) ==
    IF ~(xf.name \in {"event_detail", "method_data"} /\ Len(args) > 0)
    THEN [err |-> "ValueError", xf |-> xf]
    ELSE LET idx == args[1] \cup {"field_name"}
         IN  IF ~(idx \subseteq xf.df.cols) THEN [err |-> "KeyError", xf |-> xf]
             ELSE [err |-> "none",
                   xf |-> [xf EXCEPT
                             !.df = [cols |-> xf.df.cols,
                                     rows |-> DropMasked(xf.df.rows,
                                                 Duplicated(xf.df.rows, idx, "first"),
                                                 1)],
                             !.columns = xf.df.cols]]

-----------------------------------------------------------------------------
(* XMLFrame.pivot_data, _cast_frame and _clean_col_names. The columns of a   *)
(* pivoted frame are named by values of the data, so in these frames every   *)
(* column name is a text (a sequence of characters), and the frame carries   *)
(* the dtype of each column.                                                 *)

\* the characters of the names in the order of their code points
AsciiOrder ==
    <<" ", "(", ")", "-", ".">> \o DigitChars \o UpperChars \o <<"_">> \o LowerChars
CharCode(c) == CHOOSE i \in DOMAIN AsciiOrder : AsciiOrder[i] = c
\* a < b for texts; a missing value sorts last
RECURSIVE TextLess(_, _)
TextLess(a, b) ==
    IF a = Null \/ b = Null THEN a # Null /\ b = Null
    ELSE IF b = <<>> THEN FALSE
    ELSE IF a = <<>> THEN TRUE
    ELSE IF a[1] = b[1] THEN TextLess(Tail(a), Tail(b))
    ELSE CharCode(a[1]) < CharCode(b[1])
\* a < b for index tuples
RECURSIVE KeyLess(_, _)
KeyLess(a, b) ==
    IF a = <<>> THEN FALSE
    ELSE IF a[1] = b[1] THEN KeyLess(Tail(a), Tail(b))
    ELSE TextLess(a[1], b[1])
\* the index of a pivot and the groups of a groupby come out sorted
RECURSIVE SortedKeys(_)
SortedKeys(S) ==
    IF S = {} THEN <<>>
    ELSE CHOOSE s \in {<<m>> \o SortedKeys(S \ {m}) :
                         m \in {x \in S : \A y \in S \ {x} : KeyLess(x, y)}} : TRUE

SortedTexts(S) ==
    LET ks == SortedKeys({<<t>> : t \in S})
    IN  [k \in DOMAIN ks |-> ks[k][1]]

\* the text of a column name of the long format
ColText(c) ==
    CASE c = "event_id" -> <<"e", "v", "e", "n", "t", "_", "i", "d">>
      [] c = "data_row_id" -> <<"d", "a", "t", "a", "_", "r", "o", "w", "_", "i", "d">>
\* the string of a text
RECURSIVE JoinChars(_)
JoinChars(t) == IF t = <<>> THEN "" ELSE t[1] \o JoinChars(Tail(t))

IndexKey(row, index) == [k \in DOMAIN index |-> row[index[k]]]

\* DataFrame.pivot(index=index, columns=columns, values=values).reset_index()
\* over rows of the long format: one row an index tuple, one column a value of
\* columns; two rows with the same tuple and column are a ValueError
DfPivot(rows, index, columns, values) ==
    IF \E i, j \in DOMAIN rows :
          /\ i < j
          /\ IndexKey(rows[i], index) = IndexKey(rows[j], index)
          /\ rows[i][columns] = rows[j][columns]
    THEN [err |-> "ValueError", df |-> EmptyDF]
    ELSE CHOOSE res \in {
         LET icols == {ColText(index[k]) : k \in DOMAIN index}
             cols == icols \cup {rows[i][columns] : i \in DOMAIN rows}
             Cell(key, c) ==
                 IF c \in icols
                 THEN key[CHOOSE k \in DOMAIN index : ColText(index[k]) = c]
                 ELSE LET at == {i \in DOMAIN rows :
                                   /\ IndexKey(rows[i], index) = key
                                   /\ rows[i][columns] = c}
                      IN  IF at = {} THEN Null ELSE rows[CHOOSE i \in at : TRUE][values]
         IN  [err |-> "none",
              df |-> [cols |-> cols,
                      rows |-> [i \in DOMAIN keys |-> [c \in cols |-> Cell(keys[i], c)]],
                      order |-> [k \in DOMAIN index |-> ColText(index[k])]
                                  \o SortedTexts(cols \ icols),
                      dtypes |-> [c \in cols |-> "object"]]]
         : keys \in {SortedKeys({IndexKey(rows[i], index) : i \in DOMAIN rows})}} : TRUE

\* type_mapping of _cast_frame; a declared type it does not list is a KeyError
DfType(t) ==
    LET n == JoinChars(t)
    IN  CASE n = "Float" -> "float64"
          [] n = "Long" -> "int64"
          [] n = "Boolean" -> "bool"
          [] n = "Date/Time" -> "datetime64"
          [] n \in {"Text", "Species", "Memo", "GUID"} -> "str"
          [] n = "Index" -> "int64"
          [] OTHER -> "KeyError"

\* int() of a text: decimal digits only
IsIntText(v) == v # <<>> /\ \A i \in DOMAIN v : IsDigit(v[i])
\* one cell of a column under fillna and astype, for the integer and the text
\* types
CastCell(v, df_type) ==
    CASE df_type = "int64" ->
            IF v = Null THEN [err |-> "none", val |-> <<"0">>]
            ELSE IF IsIntText(v) THEN [err |-> "none", val |-> NatToStr(StrToInt(v))]
            ELSE [err |-> "ValueError", val |-> v]
      [] df_type = "str" ->
            [err |-> "none", val |-> IF v = Null THEN <<>> ELSE v]

\* temp[attr] = None
AddNoneCol(df, a) ==
    LET cs == df.cols \cup {a}
    IN  [cols |-> cs,
         rows |-> [i \in DOMAIN df.rows |->
                     [c \in cs |-> IF c = a THEN Null ELSE df.rows[i][c]]],
         order |-> IF a \in df.cols THEN df.order ELSE Append(df.order, a),
         dtypes |-> [c \in cs |-> IF c = a THEN "object" ELSE df.dtypes[c]]]
\* for attr in fields: temp[attr] = None
RECURSIVE AddNoneCols(_, _)
AddNoneCols(df, attrs) ==
    IF attrs = <<>> THEN df
    ELSE CHOOSE r \in {AddNoneCols(d, Tail(attrs)) : d \in {AddNoneCol(df, attrs[1])}} : TRUE

\* Series.unique(): the values in the order of their first appearance
RECURSIVE Unique(_)
Unique(vals) ==
    IF vals = <<>> THEN <<>>
    ELSE CHOOSE r \in {IF vals[Len(vals)] \in Range(init) THEN init
                        ELSE Append(init, vals[Len(vals)]) :
                        init \in {Unique(SubSeq(vals, 1, Len(vals) - 1))}} : TRUE

\* _cast_frame(type_df): type_dict keeps the last data_type of a field_name; the
\* columns are cast in their order and the first failure leaves the method
CastFrame(xf, type_rows) ==
    LET exclude == IF xf.name = "method_data" \/ xf.method_type
                   THEN {ColText("event_id"), ColText("data_row_id")} ELSE {}
        columns == SelectSeq(xf.df.order, LAMBDA c : c \notin exclude)
        TypeOf(c) ==
            LET at == {i \in DOMAIN type_rows : type_rows[i]["field_name"] = c}
            IN  IF at = {} THEN "KeyError"
                ELSE DfType(type_rows[CHOOSE i \in at : \A j \in at : j <= i]["data_type"])
        ColErr(c) ==
            IF TypeOf(c) = "KeyError" THEN "KeyError"
            ELSE FirstErr([i \in DOMAIN xf.df.rows |->
                             CastCell(xf.df.rows[i][c], TypeOf(c)).err])
        err == FirstErr([k \in DOMAIN columns |-> ColErr(columns[k])])
    IN  IF ~(exclude \subseteq xf.df.cols) THEN [err |-> "ValueError", xf |-> xf]
        ELSE IF err # "none" THEN [err |-> err, xf |-> xf]
        ELSE [err |-> "none",
              xf |-> [xf EXCEPT
                 !.df = [cols |-> xf.df.cols,
                         rows |-> [i \in DOMAIN xf.df.rows |->
                                     [c \in xf.df.cols |->
                                        IF c \in exclude THEN xf.df.rows[i][c]
                                        ELSE CastCell(xf.df.rows[i][c], TypeOf(c)).val]],
                         order |-> xf.df.order,
                         dtypes |-> [c \in xf.df.cols |->
                                       IF c \in exclude THEN xf.df.dtypes[c]
                                       ELSE IF TypeOf(c) = "str" THEN "object"
                                       ELSE TypeOf(c)]]]]

\* _clean_col_names: every column renamed by normalize_string
CleanColNames(xf) ==
    LET order == [k \in DOMAIN xf.df.order |-> normalize_string(xf.df.order[k])]
        From(c) == xf.df.order[CHOOSE k \in DOMAIN order :
                                  order[k] = c /\ \A j \in 1..(k - 1) : order[j] # c]
    IN  [xf EXCEPT
           !.df = [cols |-> Range(order),
                   rows |-> [i \in DOMAIN xf.df.rows |->
                               [c \in Range(order) |-> xf.df.rows[i][From(c)]]],
                   order |-> order,
                   dtypes |-> [c \in Range(order) |-> xf.df.dtypes[From(c)]]],
           !.columns = Range(order)]

\* the end of one turn of the loop of pivot_data: the cast by the declared
\* types and the cleaning of the column names
PivotCast(x, type_rows) ==
    CHOOSE r \in {IF c.err # "none" THEN [err |-> c.err, xf |-> NoFrame]
                  ELSE [err |-> "none", xf |-> CleanColNames(c.xf)] :
                  c \in {CastFrame(x.xf, type_rows)}} : TRUE
\* the pivot of the rows of one method (temp_type), the columns of its
\* attributes without a value (null_fields), and the frame of the method
PivotRows(temp_type, null_fields, index, key) ==
    CHOOSE r \in {
       IF p.err # "none" THEN [err |-> p.err, xf |-> NoFrame]
       ELSE CHOOSE q \in {
               IF x.err # "none" THEN [err |-> x.err, xf |-> NoFrame]
               ELSE PivotCast(x, type_rows) :
               x \in {XMLFrameInit(JoinChars(normalize_string(key)), temp_df, TRUE, FALSE) :
                        temp_df \in {
                          [temp EXCEPT
                             !.rows = SelectSeq(temp.rows,
                                         LAMBDA w : w[ColText("data_row_id")] # Null)] :
                          temp \in {AddNoneCols(p.df,
                                       Unique([i \in DOMAIN null_fields |->
                                                 null_fields[i]["field_name"]]))}}},
               type_rows \in {temp_type \o null_fields}} : TRUE :
       p \in {DfPivot(temp_type, index, "field_name", "data_value")}} : TRUE
\* one turn of the loop of pivot_data over the methods: the frame of the method
\* key, from the rows with a data row (method_data) and the rows without
\* (method_data_null)
PivotMethod(method_data, method_data_null, index, key) ==
    CHOOSE r \in {PivotRows(temp_type, null_fields, index, key) :
                  temp_type \in {SelectSeq(method_data, LAMBDA w : w["method"] = key)},
                  null_fields \in {SelectSeq(method_data_null,
                                             LAMBDA w : w["method"] = key)}} : TRUE

\* the methods of the rows, as groupby(by='method') yields them: sorted, the
\* rows without a method left out
MethodGroups(rows) ==
    SortedTexts({rows[i]["method"] : i \in DOMAIN rows} \ {Null})

\* the grouped mode of pivot_data, the rows split by data_row_id
PivotGrouped(xf, index, method_data, method_data_null) ==
    CHOOSE r \in {
       CHOOSE q \in {
          IF FirstErr([g \in DOMAIN made |-> made[g].err]) # "none"
          THEN [err |-> FirstErr([g \in DOMAIN made |-> made[g].err]), xf |-> xf]
          ELSE [err |-> "none",
                xf |-> [xf EXCEPT !.pivot = [g \in DOMAIN made |-> made[g].xf],
                                  !.pivoted = TRUE,
                                  !.df = EmptyDF]] :
          made \in {[g \in DOMAIN keys |->
                       PivotMethod(method_data, method_data_null, index, keys[g])]}} : TRUE :
       keys \in {MethodGroups(method_data)}} : TRUE

\* the simple mode of pivot_data: one frame, not cast
PivotSimple(xf, index) ==
    CHOOSE r \in {
       IF p.err # "none" THEN [err |-> p.err, xf |-> xf]
       ELSE [err |-> "none",
             xf |-> [xf EXCEPT
                       !.pivot = <<CleanColNames(
                                     XMLFrameInit(xf.name,
                                        [p.df EXCEPT
                                           !.rows = SelectSeq(p.df.rows,
                                              LAMBDA w : w[ColText(index[Len(index)])] # Null)],
                                        FALSE, TRUE).xf)>>,
                       !.pivoted = TRUE,
                       !.df = EmptyDF]] :
       p \in {DfPivot(xf.df.rows, index, "field_name", "data_value")}} : TRUE

\* pivot_data(index) with columns and values at their defaults: the frame
\* afterwards, or the error that leaves the method
PivotData(xf, index) ==
    IF xf.name = "method_data"
    THEN CHOOSE r \in {PivotGrouped(xf, index, method_data, method_data_null) :
                       method_data \in {SelectSeq(xf.df.rows,
                                                  LAMBDA w : w["data_row_id"] # Null)},
                       method_data_null \in {SelectSeq(xf.df.rows,
                                                       LAMBDA w : w["data_row_id"] = Null)}}
              : TRUE
    ELSE IF {"field_name", "data_value"} \subseteq xf.columns
    THEN PivotSimple(xf, index)
    ELSE [err |-> "ValueError", xf |-> xf]

\* pivot_data of src/base.py: the rows are grouped before those without a data
\* row are set apart, so a method's group holds them too, and self.df is kept
\* when self.pivot is set; the frames of the pivot are of the same class
LegacyPivotData(xf, index) ==
    CHOOSE r \in {
       IF p.err # "none" THEN [err |-> p.err, xf |-> xf]
       ELSE [err |-> "none",
             xf |-> [p.xf EXCEPT
                       !.df = xf.df,
                       !.pivot = [g \in DOMAIN p.xf.pivot |->
                                    [p.xf.pivot[g] EXCEPT !.lib = "legacy"]]]] :
       p \in {IF xf.name = "method_data"
              THEN PivotGrouped(xf, index, xf.df.rows,
                                SelectSeq(xf.df.rows, LAMBDA w : w["data_row_id"] = Null))
              ELSE IF {"field_name", "data_value"} \subseteq xf.columns
              THEN PivotSimple(xf, index)
              ELSE [err |-> "ValueError", xf |-> xf]}} : TRUE

-----------------------------------------------------------------------------
(* FFIFile: the record types of a document, the staging joins and the      *)
(* output tables                                                           *)

\* findall(r'\{http://\w+\.\w{3}[\w/.\d]+\}', tag): the ends of the matches
\* that begin at i
IsNsChar(c) == IsWordChar(c) \/ c \in {"/", "."}
NsMatchEnds(tag, i) ==
    {e \in (i + 1)..Len(tag) :
       /\ i + 7 <= Len(tag)
       /\ SubSeq(tag, i, i + 7) = <<"{", "h", "t", "t", "p", ":", "/", "/">>
       /\ tag[e] = "}"
       /\ \E j \in (i + 8)..(e - 6) :
             /\ \A k \in (i + 8)..j : IsWordChar(tag[k])
             /\ tag[j + 1] = "."
             /\ \A k \in (j + 2)..(j + 4) : IsWordChar(tag[k])
             /\ \A k \in (j + 5)..(e - 1) : IsNsChar(tag[k])}
\* a namespace that is empty when the tag holds no match
RootNamespaceOrEmpty(tag) ==
    LET starts == {i \in DOMAIN tag : NsMatchEnds(tag, i) # {}}
    IN  IF starts = {} THEN [err |-> "none", val |-> <<>>]
        ELSE LET i == MinOf(starts)
             IN  [err |-> "none",
                  val |-> SubSeq(tag, i + 1, MinOf(NsMatchEnds(tag, i)) - 1)]

\* self._namespace = findall(..., self._root.tag)[0].strip('{}'): the first
\* match without its braces, IndexError when the tag holds none
RootNamespace(tag) ==
    LET starts == {i \in DOMAIN tag : NsMatchEnds(tag, i) # {}}
    IN  IF starts = {} THEN [err |-> "IndexError", val |-> <<>>]
        ELSE LET i == MinOf(starts)
             IN  [err |-> "none",
                  val |-> SubSeq(tag, i + 1, MinOf(NsMatchEnds(tag, i)) - 1)]

\* the record types _parse_data reads, in the order of its loop
needed_tables ==
    <<"MacroPlot", "RegistrationUnit", "MM_ProjectUnit_MacroPlot", "ProjectUnit",
      "SampleEvent", "MM_MonitoringStatus_SampleEvent", "MonitoringStatus",
      "MethodAttribute", "AttributeData", "Method", "LU_DataType", "Schema_Version",
      "MasterSpecies", "SampleData", "SampleAttribute", "LocalSpecies">>

\* concat(dfs) of the one-row frames of the elements of a type: the union of
\* their columns, a missing value where an element lacks a child; ValueError
\* when there is nothing to concatenate
Concat(records) ==
    IF records = <<>> THEN [err |-> "ValueError", df |-> EmptyDF]
    ELSE LET cs == UNION {DOMAIN records[i] : i \in DOMAIN records}
         IN  [err |-> "none",
              df |-> [cols |-> cs,
                      rows |-> [i \in DOMAIN records |->
                                  [c \in cs |-> IF c \in DOMAIN records[i]
                                                THEN records[i][c] ELSE Null]]]]

\* _parse_data: the data map after the loop, or after the turn that raised
ParseData(records) ==
    LET res == [k \in DOMAIN needed_tables |-> Concat(records[needed_tables[k]])]
        err == FirstErr([k \in DOMAIN res |-> res[k].err])
        bound == IF err = "none" THEN DOMAIN needed_tables
                 ELSE {k \in DOMAIN needed_tables :
                         \A j \in 1..k : res[j].err = "none"}
    IN  [err |-> err,
         data_map |-> [t \in {needed_tables[k] : k \in bound} |->
                         res[CHOOSE k \in bound : needed_tables[k] = t].df]]

\* left.merge(right, left_on=left_on, right_on=right_on, how='left') for frames
\* without a common column name: the rows of left in their order, each with
\* every row of right of the same key (missing keys match each other), or with
\* missing values when there is none
RECURSIVE MergeRows(_, _, _, _, _)
MergeRows(lrows, right, left_on, right_on, i) ==
    IF i > Len(lrows) THEN <<>>
    ELSE LET Joined(r) == [c \in DOMAIN lrows[i] \cup right.cols |->
                             IF c \in DOMAIN lrows[i] THEN lrows[i][c] ELSE r[c]]
             none == [c \in right.cols |-> Null]
         IN  (CHOOSE q \in {IF hits = <<>> THEN <<Joined(none)>>
                            ELSE [k \in DOMAIN hits |-> Joined(hits[k])] :
                            hits \in {SelectSeq(right.rows,
                                         LAMBDA r : r[right_on] = lrows[i][left_on])}}
                 : TRUE)
             \o MergeRows(lrows, right, left_on, right_on, i + 1)
Merge(left, right, left_on, right_on) ==
    IF left_on \notin left.cols \/ right_on \notin right.cols
    THEN [err |-> "KeyError", df |-> EmptyDF]
    ELSE [err |-> "none",
          df |-> [cols |-> left.cols \cup right.cols,
                  rows |-> MergeRows(left.rows, right, left_on, right_on, 1)]]

\* a chain of left merges from a first frame: steps holds, for each merge, the
\* frame on the right and the two key columns
RECURSIVE MergeChain(_, _)
MergeChain(first, steps) ==
    IF steps = <<>> THEN [err |-> "none", df |-> first]
    ELSE CHOOSE r \in {IF init.err # "none" THEN init
                       ELSE Merge(init.df, steps[Len(steps)][1], steps[Len(steps)][2],
                                  steps[Len(steps)][3]) :
                       init \in {MergeChain(first, SubSeq(steps, 1, Len(steps) - 1))}}
            : TRUE

\* an XMLFrame that keeps a copy of the frame it was given
Copied(data, xf) == data

\* self.df = data in XMLFrame.__init__: the object keeps the frame it was
\* given, so what the constructor adds to self.df is added to data
Aliased(data, xf) == xf.df

\* the frame a staging XMLFrame is made of, or the error of the chain
Staged(name, chain) ==
    CHOOSE r \in {IF c.err # "none" THEN [err |-> c.err, xf |-> NoFrame]
                  ELSE XMLFrameInit(name, c.df, FALSE, FALSE) : c \in {chain}} : TRUE

\* _create_cte_tables: the six staging frames (table_dict), or the error that
\* leaves the method; the frames are made in the order plot_id,
\* monitoring_status, event_id, projects, attr_data_xml, admin_unit
CreateCteTables(dm) ==
    CHOOSE r \in {
       CHOOSE q \in {
          CHOOSE p \in {
             LET made == <<plot_id, monitoring_status, event_id, projects,
                           attr_data_xml, admin_unit>>
                 err == FirstErr([k \in DOMAIN made |-> made[k].err])
             IN  IF err # "none" THEN [err |-> err, base |-> <<>>]
                 ELSE [err |-> "none",
                       base |-> [plot_id |-> plot_id.xf, event_id |-> event_id.xf,
                                 monitoring_status |-> monitoring_status.xf,
                                 admin_unit |-> admin_unit.xf, project |-> projects.xf,
                                 attr_data |-> attr_data_xml.xf]] :
             monitoring_status \in {
                Staged("monitoring_status",
                   MergeChain(dm["MM_MonitoringStatus_SampleEvent"],
                      <<<<dm["MonitoringStatus"], "MM_MonitoringStatus_GUID",
                          "MonitoringStatus_GUID">>,
                        <<dm["SampleEvent"], "MM_SampleEvent_GUID", "SampleEvent_GUID">>,
                        <<dm["MacroPlot"], "SampleEvent_Plot_GUID", "MacroPlot_GUID">>>>))},
             event_id \in {
                Staged("sampling_event",
                   MergeChain(dm["SampleEvent"],
                      <<<<Aliased(plot_table.df, plot_id.xf), "SampleEvent_Plot_GUID",
                          "MacroPlot_GUID">>,
                        <<dm["MM_MonitoringStatus_SampleEvent"], "SampleEvent_GUID",
                          "MM_SampleEvent_GUID">>,
                        <<dm["MonitoringStatus"], "MM_MonitoringStatus_GUID",
                          "MonitoringStatus_GUID">>>>))},
             projects \in {
                Staged("project",
                   MergeChain(dm["ProjectUnit"],
                      <<<<dm["RegistrationUnit"], "ProjectUnit_RegistrationUnitGUID",
                          "RegistrationUnit_GUID">>>>))},
             attr_data_xml \in {
                Staged("attr_data",
                   MergeChain(dm["MethodAttribute"],
                      <<<<dm["AttributeData"], "MethodAtt_ID",
                          "AttributeData_MethodAtt_ID">>,
                        <<dm["Method"], "MethodAtt_Method_GUID", "Method_GUID">>,
                        <<dm["LU_DataType"], "MethodAtt_DataType_GUID",
                          "LU_DataType_GUID">>>>))},
             admin_unit \in {XMLFrameInit("admin_unit", dm["RegistrationUnit"],
                                          FALSE, FALSE)}} : TRUE :
          plot_id \in {Staged("plot", plot_table)}} : TRUE :
       plot_table \in {
          MergeChain(dm["MacroPlot"],
             <<<<dm["RegistrationUnit"], "MacroPlot_RegistrationUnit_GUID",
                 "RegistrationUnit_GUID">>,
               <<dm["MM_ProjectUnit_MacroPlot"], "MacroPlot_GUID", "MM_MacroPlot_GUID">>,
               <<dm["ProjectUnit"], "MM_ProjectUnit_GUID", "ProjectUnit_GUID">>>>)}} : TRUE

\* _process_attr_name, attr_name(row): the column name an attribute gets. For
\* event_detail the method is read first (match raises TypeError on a missing
\* one); MacroPlotSize of a tree method takes the first letter of the method's
\* word after 'Trees - ', and FieldTeam and EntryTeam take the method name
\* without blanks and hyphens (method names with a parenthesis are not among
\* the inputs). For method_data, Comment becomes note.
AttrName(name, row) ==
    IF name = "event_detail"
    THEN IF ~({"SampleAtt_FieldName", "Method_Name"} \subseteq DOMAIN row)
         THEN [err |-> "KeyError", val |-> <<>>]
         ELSE IF row["Method_Name"] = Null THEN [err |-> "TypeError", val |-> <<>>]
         ELSE LET field_name == row["SampleAtt_FieldName"]
                  method_name == row["Method_Name"]
                  tree_method == StrPrefix(method_name, 8) = <<"T", "r", "e", "e", "s", " ", "-", " ">>
                  word == SubSeq(method_name, 9, WordRunEnd(method_name, 9) - 1)
              IN  CASE field_name = <<"M", "a", "c", "r", "o", "P", "l", "o", "t", "S", "i", "z", "e">> /\ tree_method ->
                         IF word = <<>> THEN [err |-> "IndexError", val |-> <<>>]
                         ELSE [err |-> "none",
                               val |-> field_name \o <<"_">>
                                       \o (IF word = <<"I", "n", "d", "i", "v", "i", "d", "u", "a", "l", "s">> THEN <<"T">>
                                           ELSE <<word[1]>>)]
                    [] field_name \in {<<"F", "i", "e", "l", "d", "T", "e", "a", "m">>, <<"E", "n", "t", "r", "y", "T", "e", "a", "m">>}
                       /\ "(" \notin Range(method_name) ->
                         [err |-> "none",
                          val |-> field_name \o <<"_">>
                                  \o StrRemove(method_name, {" ", "-"})]
                    [] field_name \notin {<<"F", "i", "e", "l", "d", "T", "e", "a", "m">>, <<"E", "n", "t", "r", "y", "T", "e", "a", "m">>}
                       /\ ~(field_name = <<"M", "a", "c", "r", "o", "P", "l", "o", "t", "S", "i", "z", "e">> /\ tree_method) ->
                         [err |-> "none", val |-> field_name]
    ELSE IF "MethodAtt_FieldName" \notin DOMAIN row
    THEN [err |-> "KeyError", val |-> <<>>]
    ELSE [err |-> "none",
          val |-> IF row["MethodAtt_FieldName"] = <<"C", "o", "m", "m", "e", "n", "t">> THEN <<"n", "o", "t", "e">>
                  ELSE row["MethodAtt_FieldName"]]

\* _process_attr_value, attr_val(row): the value as a text; without a
\* SampleData_Value column the species symbol stands for the value when the
\* value names a local species
AttrVal(row) ==
    IF "SampleData_Value" \in DOMAIN row
    THEN [err |-> "none", val |-> StrOf(row["SampleData_Value"])]
    ELSE IF ~({"AttributeData_Value", "LocalSpecies_Symbol"} \subseteq DOMAIN row)
    THEN [err |-> "KeyError", val |-> <<>>]
    ELSE [err |-> "none",
          val |-> IF row["LocalSpecies_Symbol"] # Null THEN row["LocalSpecies_Symbol"]
                  ELSE StrOf(row["AttributeData_Value"])]

\* XMLFrame.__init__ for event_detail and method_data, over data of at least
\* one row: _create_ids and _create_monitoring_status are skipped (KeyError,
\* ValueError), FieldName and DataValue are added; an error of attr_name or
\* attr_val other than ValueError leaves the constructor
XMLFrameInitAttr(name, data) ==
    CHOOSE r \in {
       LET nerr == FirstErr([i \in DOMAIN names |-> names[i].err])
           verr == FirstErr([i \in DOMAIN vals |-> vals[i].err])
       IN  IF nerr # "none" THEN [err |-> nerr, xf |-> NoFrame]
           ELSE IF verr # "none" THEN [err |-> verr, xf |-> NoFrame]
           ELSE [err |-> "none",
                 xf |-> MkFrame("ffi_reader", name,
                           SetCol(SetCol(data, "FieldName",
                                         [i \in DOMAIN names |-> names[i].val]),
                                  "DataValue", [i \in DOMAIN vals |-> vals[i].val]),
                           data.cols \cup {"FieldName", "DataValue"}, FALSE)] :
       names \in {[i \in DOMAIN data.rows |-> AttrName(name, data.rows[i])]},
       vals \in {[i \in DOMAIN data.rows |-> AttrVal(data.rows[i])]}} : TRUE

\* the names the output tables are built under, in the order of the loop
table_list == <<"file_info", "admin_unit", "sampling_event", "monitoring_status",
                "project", "species", "plot", "project_plot", "event_detail",
                "method_data">>

\* the column mappings of the recipes of _create_tables, over the columns the
\* records of the documents carry
SamplingEventCols ==
    [c \in {"EventID", "PlotID", "SampleEvent_Date", "SampleEvent_Who",
            "SampleEvent_Comment", "monitoring_status"} |->
       CASE c = "EventID" -> "event_id"
         [] c = "PlotID" -> "plot_id"
         [] c = "SampleEvent_Date" -> "event_date"
         [] c = "SampleEvent_Who" -> "personnel"
         [] c = "SampleEvent_Comment" -> "note"
         [] c = "monitoring_status" -> "monitoring_status"]
PlotCols ==
    [c \in {"PlotID", "MacroPlot_Name", "RegistrationUnit_Name", "MacroPlot_DateIn",
            "MacroPlot_Comment"} |->
       CASE c = "PlotID" -> "plot_id"
         [] c = "MacroPlot_Name" -> "plot_name"
         [] c = "RegistrationUnit_Name" -> "admin_unit"
         [] c = "MacroPlot_DateIn" -> "date_created"
         [] c = "MacroPlot_Comment" -> "comment"]
ProjectPlotCols ==
    [c \in {"PlotID", "ProjectUnit_Name"} |->
       IF c = "PlotID" THEN "plot_id" ELSE "project_name"]
ProjectCols ==
    [c \in {"ProjectUnit_Name", "RegistrationUnit_Name"} |->
       IF c = "ProjectUnit_Name" THEN "project_name" ELSE "admin_unit"]
AdminUnitCols ==
    [c \in {"RegistrationUnit_Name", "RegistrationUnit_Comment"} |->
       IF c = "RegistrationUnit_Name" THEN "admin_unit" ELSE "details"]
SpeciesCols ==
    [c \in {"MasterSpecies_Symbol", "MasterSpecies_ScientificName"} |->
       IF c = "MasterSpecies_Symbol" THEN "symbol" ELSE "scientific_name"]
EventDetailCols ==
    [c \in {"EventID", "FieldName", "DataValue", "LU_DataType_Name"} |->
       CASE c = "EventID" -> "event_id"
         [] c = "FieldName" -> "field_name"
         [] c = "DataValue" -> "data_value"
         [] c = "LU_DataType_Name" -> "data_type"]
MethodDataCols ==
    [c \in {"AttributeData_DataRow_ID", "EventID", "Method_Name", "FieldName",
            "DataValue", "LU_DataType_Name"} |->
       CASE c = "AttributeData_DataRow_ID" -> "data_row_id"
         [] c = "EventID" -> "event_id"
         [] c = "Method_Name" -> "method"
         [] c = "FieldName" -> "field_name"
         [] c = "DataValue" -> "data_value"
         [] c = "LU_DataType_Name" -> "data_type"]
MonitoringStatusCols ==
    {"monitoring_status", "status_prefix", "monitoring_type", "time_frame"}

\* event_id after event_id[cols] of the sampling_event recipe, which adds to
\* its frame the requested columns it lacks
EventIdFrame(f) == GetItem(f.base.event_id, DictReq(SamplingEventCols)).src

\* the end of the recipes of event_detail and method_data: the XMLFrame of the
\* joined rows, the projection, drop_duplicate_fields and pivot_data
PivotRecipe(table, chain, cols, idx) ==
    CHOOSE r \in {
       IF x_frame.err # "none" THEN [err |-> x_frame.err, xf |-> NoFrame]
       ELSE CHOOSE q \in {
               CHOOSE p \in {IF dd.err # "none" THEN [err |-> dd.err, xf |-> NoFrame]
                             ELSE PivotData(dd.xf, idx) :
                             dd \in {DropDuplicateFields(final,
                                        <<{idx[i] : i \in DOMAIN idx}>>)}} : TRUE :
               final \in {GetItem(x_frame.xf, DictReq(cols)).res}} : TRUE :
       x_frame \in {CHOOSE q \in {IF c.err # "none" THEN [err |-> c.err, xf |-> NoFrame]
                                  ELSE XMLFrameInitAttr(table, c.df) :
                                  c \in {chain}} : TRUE}} : TRUE

\* the frame a recipe starts from: a staging frame, or the XMLFrame made of
\* the file's identity (file_info) or of the MasterSpecies records (species)
RecipeFrame(table, f) ==
    CASE table \in {"file_info", "species"} ->
            XMLFrameInit(table,
               IF table = "species" THEN f.data_map["MasterSpecies"]
               ELSE [cols |-> {"file_id", "file", "ffi_version"},
                     rows |-> <<[c \in {"file_id", "file", "ffi_version"} |->
                                   CASE c = "file_id" -> f.id
                                     [] c = "file" -> f.file
                                     [] c = "ffi_version" -> f.ffi_version]>>],
               FALSE, FALSE)
      [] table = "admin_unit" -> [err |-> "none", xf |-> f.base.admin_unit]
      [] table = "sampling_event" -> [err |-> "none", xf |-> f.base.event_id]
      [] table = "monitoring_status" -> [err |-> "none", xf |-> f.base.monitoring_status]
      [] table = "project" -> [err |-> "none", xf |-> f.base.project]
      [] table \in {"plot", "project_plot"} -> [err |-> "none", xf |-> f.base.plot_id]
\* cols of a recipe, as __getitem__ takes it
RecipeCols(table) ==
    CASE table = "admin_unit" -> DictReq(AdminUnitCols)
      [] table = "sampling_event" -> DictReq(SamplingEventCols)
      [] table = "monitoring_status" -> ListReq(MonitoringStatusCols)
      [] table = "project" -> DictReq(ProjectCols)
      [] table = "species" -> DictReq(SpeciesCols)
      [] table = "plot" -> DictReq(PlotCols)
      [] table = "project_plot" -> DictReq(ProjectPlotCols)
\* the joins of the recipes of event_detail and method_data
RecipeChain(table, f) ==
    MergeChain(IF table = "event_detail" THEN f.data_map["SampleData"]
               ELSE f.base.attr_data.df,
       IF table = "event_detail"
       THEN <<<<EventIdFrame(f).df, "SampleData_SampleEvent_GUID", "SampleEvent_GUID">>,
              <<f.data_map["SampleAttribute"], "SampleData_SampleAtt_ID", "SampleAtt_ID">>,
              <<f.data_map["Method"], "SampleAtt_Method_ID", "Method_ID">>,
              <<f.data_map["LU_DataType"], "SampleAtt_DataType_GUID",
                "LU_DataType_GUID">>>>
       ELSE <<<<DropDuplicatesDF(SelectCols(f.data_map["SampleData"],
                   {"SampleData_SampleRow_ID", "SampleData_SampleEvent_GUID"})),
                "AttributeData_SampleRow_ID", "SampleData_SampleRow_ID">>,
              <<EventIdFrame(f).df, "SampleData_SampleEvent_GUID", "SampleEvent_GUID">>,
              <<f.data_map["LocalSpecies"], "AttributeData_Value",
                "LocalSpecies_GUID">>>>)

\* one turn of the loop of _create_tables: final, the frame of the table.
\* file_info is the XMLFrame itself; the other tables are a projection, with
\* unit_identifier added (admin_unit), deduplicated (sampling_event,
\* monitoring_status) or renamed (project_plot); event_detail and method_data
\* are pivoted over their index
Final(table, f) ==
    IF table \in {"event_detail", "method_data"}
    THEN PivotRecipe(table, RecipeChain(table, f),
                     IF table = "event_detail" THEN EventDetailCols ELSE MethodDataCols,
                     IF table = "event_detail" THEN <<"event_id">>
                     ELSE <<"event_id", "data_row_id">>)
    ELSE CHOOSE r \in {
            IF frame0.err # "none" \/ table = "file_info" THEN frame0
            ELSE CHOOSE q \in {
                    CASE table = "admin_unit" ->
                            [err |-> "none",
                             xf |-> [x EXCEPT
                                       !.df = SetCol(x.df, "unit_identifier",
                                                [i \in DOMAIN x.df.rows |-> <<>>])]]
                      [] table \in {"sampling_event", "monitoring_status"} ->
                            DropDuplicates(x, NoSubset)
                      [] table = "project_plot" ->
                            [err |-> "none", xf |-> [x EXCEPT !.name = "project_plot"]]
                      [] table \in {"project", "species", "plot"} ->
                            [err |-> "none", xf |-> x] :
                    x \in {GetItem(frame0.xf, RecipeCols(table)).res}} : TRUE :
            frame0 \in {RecipeFrame(table, f)}} : TRUE

\* frames[key] = frame: a dict keeps its keys in the order of their first
\* assignment
DictSet(frames, key, xf) ==
    IF \E i \in DOMAIN frames : frames[i].key = key
    THEN [i \in DOMAIN frames |->
            IF frames[i].key = key THEN [key |-> key, frame |-> xf] ELSE frames[i]]
    ELSE Append(frames, [key |-> key, frame |-> xf])
RECURSIVE DictSetAll(_, _)
DictSetAll(frames, pivot) ==
    IF pivot = <<>> THEN frames
    ELSE DictSetAll(DictSet(frames, pivot[1].name, pivot[1]), Tail(pivot))

\* the end of a turn of the loop: the frames of a pivoted table under their
\* own names when there are several, else the one frame under the name of the
\* table
PutFinal(frames, table, final) ==
    IF final.pivoted
    THEN IF Len(final.pivot) > 1
         THEN [err |-> "none", frames |-> DictSetAll(frames, final.pivot)]
         ELSE IF final.pivot = <<>> THEN [err |-> "IndexError", frames |-> frames]
         ELSE [err |-> "none", frames |-> DictSet(frames, table, final.pivot[1])]
    ELSE [err |-> "none", frames |-> DictSet(frames, table, final)]

\* _create_tables from the k-th name of table_list on: self._tables, or the
\* error that leaves the method before self._tables is assigned
RECURSIVE CreateTablesFrom(_, _, _)
CreateTablesFrom(f, k, frames) ==
    IF k > Len(table_list) THEN [err |-> "none", tables |-> frames]
    ELSE CHOOSE r \in {
            IF final.err # "none" THEN [err |-> final.err, tables |-> <<>>]
            ELSE CHOOSE q \in {
                    IF put.err # "none" THEN [err |-> put.err, tables |-> <<>>]
                    ELSE CreateTablesFrom(f, k + 1, put.frames) :
                    put \in {PutFinal(frames, table_list[k], final.xf)}} : TRUE :
            final \in {Final(table_list[k], f)}} : TRUE
CreateTables(f) == CreateTablesFrom(f, 1, <<>>)

\* get_tables: the frames of self._tables in the order of its keys
GetTables(f) == [i \in DOMAIN f.tables |-> f.tables[i].frame]

-----------------------------------------------------------------------------
(* The destination database and XMLFrame.to_sql                            *)

\* a destination: its tables by name, each with its columns, its rows in the
\* order of insertion and whether dependent objects (views) hang on it, and the
\* names whose dependents deps_save_and_drop_dependencies has put aside
EmptyDb == [tables |-> <<>>, saved |-> {}]
HasTable(d, name) == name \in DOMAIN d.tables
PutTable(d, name, t) ==
    [d EXCEPT !.tables = [n \in DOMAIN d.tables \cup {name} |->
                            IF n = name THEN t ELSE d.tables[n]]]
DropTable(d, name) ==
    [d EXCEPT !.tables = [n \in DOMAIN d.tables \ {name} |-> d.tables[n]]]

\* the rows of a table or frame over the columns cs, None where it has none
RowsOver(rows, cs) ==
    [i \in DOMAIN rows |->
       [k \in cs |-> IF k \in DOMAIN rows[i] THEN rows[i][k] ELSE Null]]

\* the exception classes of sqlalchemy.exc that the code or the driver names
ExcNames == {"ProgrammingError", "InternalError", "OperationalError", "DataError"}
\* the failures of a statement that are not a ProgrammingError
DbFaults == {"InternalError", "OperationalError"}

\* read_sql("select distinct <col> from <name>"): an undefined table or column
\* is a ProgrammingError
ReadDistinct(d, name, col, fault) ==
    IF fault # "none" THEN [err |-> fault, vals |-> {}]
    ELSE IF ~HasTable(d, name) \/ col \notin d.tables[name].cols
    THEN [err |-> "ProgrammingError", vals |-> {}]
    ELSE [err |-> "none",
          vals |-> {d.tables[name].rows[i][col] : i \in DOMAIN d.tables[name].rows}]

\* the names _filter_exists looks up, and the column it looks them up by
FilterNames == {"monitoring_status", "species", "admin_unit"}
LegacyFilterNames == {"monitoring_status", "species"}
FilterNamesOf(lib) == IF lib = "legacy" THEN LegacyFilterNames ELSE FilterNames
CheckCol(name) == IF name = "species" THEN "symbol" ELSE name

\* the except clauses of _filter_exists, in order: the name of the second is
\* not an attribute of sqlalchemy.exc, and looking it up raises AttributeError
FilterHandlers == <<"ProgrammingError", "InteralError">>
RECURSIVE Handle(_, _, _)
Handle(raised, handlers, i) ==
    IF i > Len(handlers) THEN raised
    ELSE IF handlers[i] \notin ExcNames THEN "AttributeError"
    ELSE IF handlers[i] = raised THEN "none"
    ELSE Handle(raised, handlers, i + 1)

\* df.loc[~df[col].isin(vals)]
DropIsin(df, col, vals) ==
    LET Keep(r) == r[col] \notin vals
    IN  [cols |-> df.cols, rows |-> SelectSeq(df.rows, Keep)]

\* _filter_exists: self.df afterwards, or the error that leaves the method
FilterExists(lib, name, df, d, fault) ==
    IF name \notin FilterNamesOf(lib) THEN [err |-> "none", df |-> df]
    ELSE LET q == ReadDistinct(d, name, CheckCol(name), fault)
         IN  IF q.err = "none" /\ CheckCol(name) \in df.cols
             THEN [err |-> "none", df |-> DropIsin(df, CheckCol(name), q.vals)]
             ELSE [err |-> Handle(IF q.err = "none" THEN "KeyError" ELSE q.err,
                                  FilterHandlers, 1),
                   df |-> df]

\* DataFrame.to_sql(name, if_exists=...): creates the table when there is none;
\* appends otherwise, which is a ProgrammingError when the frame has a column
\* the table lacks
PdToSql(d, name, df, if_exists) ==
    IF ~HasTable(d, name)
    THEN [err |-> "none",
          db |-> PutTable(d, name, [cols |-> df.cols, rows |-> df.rows, deps |-> FALSE])]
    ELSE IF if_exists = "fail" THEN [err |-> "ValueError", db |-> d]
    ELSE IF if_exists = "replace"
    THEN [err |-> "none",
          db |-> PutTable(d, name, [cols |-> df.cols, rows |-> df.rows, deps |-> FALSE])]
    ELSE IF ~(df.cols \subseteq d.tables[name].cols)
    THEN [err |-> "ProgrammingError", db |-> d]
    ELSE [err |-> "none",
          db |-> PutTable(d, name,
                          [d.tables[name] EXCEPT
                             !.rows = @ \o RowsOver(df.rows, d.tables[name].cols)])]

ReplaceMode == "replace"

\* the if_exists of the append in to_sql
AppendMode == "append"

-----------------------------------------------------------------------------
(* XMLFrame._add_new_columns                                               *)

\* without the transaction every statement is durable as soon as it has run
DurableAtOnce(committed, working) == working
\* with conn.begin(): what the block has done is durable at its commit only
Durable(committed, working) == committed

BackupName(name) == name \o "_backup"

\* Table(name, md, autoload=True): cols_list
ReflectCols(d, name) == d.tables[name].cols

\* deps_save_and_drop_dependencies(schema, table): the dependents of the table
\* are recorded and dropped
DepsSaveAndDrop(d, name) ==
    IF HasTable(d, name) /\ d.tables[name].deps
    THEN [err |-> "none",
          db |-> [d EXCEPT !.tables[name].deps = FALSE, !.saved = @ \cup {name}]]
    ELSE [err |-> "none", db |-> d]

\* alter table <name> rename to <name>_backup
RenameToBackup(d, name) ==
    IF ~HasTable(d, name) \/ HasTable(d, BackupName(name))
    THEN [err |-> "ProgrammingError", db |-> d]
    ELSE [err |-> "none",
          db |-> PutTable(DropTable(d, name), BackupName(name), d.tables[name])]

\* df[col] = None for the columns of the old table the frame lacks
NullFill(df, cols_list) == AddNullCols(df, cols_list \ df.cols)

\* a copy-back that copies nothing
CopyNothing(d, name, cols_list) == [err |-> "none", db |-> d]
\* insert into <name> (cols_list) select cols_list from <name>_backup
CopyBack(d, name, cols_list) ==
    IF ~HasTable(d, name) \/ ~HasTable(d, BackupName(name))
       \/ ~(cols_list \subseteq d.tables[name].cols)
       \/ ~(cols_list \subseteq d.tables[BackupName(name)].cols)
    THEN [err |-> "ProgrammingError", db |-> d]
    ELSE [err |-> "none",
          db |-> [d EXCEPT !.tables[name].rows =
                     @ \o RowsOver(SelectCols(d.tables[BackupName(name)], cols_list).rows,
                                   d.tables[name].cols)]]

\* drop table <name>_backup: refused while dependents hang on it
DropBackup(d, name) ==
    IF ~HasTable(d, BackupName(name)) THEN [err |-> "ProgrammingError", db |-> d]
    ELSE IF d.tables[BackupName(name)].deps THEN [err |-> "InternalError", db |-> d]
    ELSE [err |-> "none", db |-> DropTable(d, BackupName(name))]

\* deps_restore_dependencies(schema, table): the recorded dependents are
\* created again on the table of that name
DepsRestore(d, name) ==
    IF name \in d.saved /\ HasTable(d, name)
    THEN [err |-> "none",
          db |-> [d EXCEPT !.tables[name].deps = TRUE, !.saved = @ \ {name}]]
    ELSE [err |-> "none", db |-> d]

-----------------------------------------------------------------------------
(* The drivers: xml_to_rdb.py over ffi_reader/base.py, xml_parser.py over   *)
(* base.py                                                                 *)

Drivers == {"xml_to_rdb", "xml_parser"}
LibOf(driver) == IF driver = "xml_parser" THEN "legacy" ELSE "ffi_reader"

\* the staging tables, then the output tables one after the other
BuildSteps ==
    <<[op |-> "build", t |-> "staging"]>>
    \o [i \in DOMAIN table_list |-> [op |-> "build", t |-> table_list[i]]]
\* the document the driver is at
CurDoc == drv.docs[Len(drv.docs)]
\* the names of the frames the library makes of a document, in their order:
\* the tables of table_list before method_data, then the frames of the pivot
\* of method_data, one a method and named after it
OutputNames(doc) == SubSeq(table_list, 1, Len(table_list) - 1) \o doc.methods
\* a loop over the frames from the last to the first
WriteStepsReversed ==
    [i \in DOMAIN OutputNames(CurDoc) |->
       [op |-> "to_sql",
        t |-> OutputNames(CurDoc)[Len(OutputNames(CurDoc)) + 1 - i]]]
\* for table in data: table.to_sql(pg_con2)
WriteSteps ==
    [i \in DOMAIN OutputNames(CurDoc) |-> [op |-> "to_sql", t |-> OutputNames(CurDoc)[i]]]
Call(op) == [op |-> op, t |-> "-"]

\* a program that writes each table as soon as it is built
StreamedProgram(driver) ==
    <<Call("FFIFile"), Call("exists_admin_export"), BuildSteps[1]>>
    \o [i \in 1..(2 * (Len(table_list) - 1)) |->
          IF i % 2 = 1 THEN BuildSteps[1 + (i + 1) \div 2] ELSE WriteSteps[i \div 2]]
    \o <<BuildSteps[Len(BuildSteps)]>>
    \o SubSeq(WriteSteps, Len(table_list), Len(WriteSteps))

\* what a driver does with one document. In ffi_reader the constructor builds
\* every table; xml_parser.py has them built by create_tables after its check
\* of file_info.
Program(driver) ==
    IF driver = "xml_parser"
    THEN <<Call("FFIFile"), Call("exists_admin_export")>> \o BuildSteps \o WriteSteps
    ELSE <<Call("FFIFile")>> \o BuildSteps
         \o <<Call("filter_existing_data"), Call("create_tables"), Call("get_tables")>>
         \o WriteSteps

\* the methods of FFIFile the drivers call, as each library defines them
FFIFileMethods(lib) ==
    IF lib = "legacy" THEN {"exists_admin_export", "create_tables"}
    ELSE {"exists_admin_export", "get_tables"}

\* the conditions that are fatal for a document, and the step that raises on
\* each: ET.parse on a malformed document; for a missing Schema_Version,
\* concat in _parse_data (or the subscript of the data map in base.py); for
\* another missing record type, concat in _parse_data (or the subscript in
\* _create_basic_tables of base.py); for a declared type or a field that is
\* not mapped, _cast_frame under pivot_data of method_data
DocFaults == {"unparseable", "missing_version", "missing_type", "bad_cast"}
FaultAt(lib, fault) ==
    IF fault \in {"unparseable", "missing_version"} THEN Call("FFIFile")
    ELSE IF fault = "missing_type"
    THEN IF lib = "legacy" THEN [op |-> "build", t |-> "staging"] ELSE Call("FFIFile")
    ELSE IF fault = "bad_cast" THEN [op |-> "build", t |-> "method_data"]
    ELSE Call("none")

\* what reaches main from an exception under the loop over the files:
\* xml_to_rdb.py logs it and leaves the loop, xml_parser.py has no handler
AfterRaise(driver) == IF driver = "xml_to_rdb" THEN "stopped" ELSE "crashed"

\* exists_admin_export: a row of file_info with the file_id of the document
ExistsAdminExport(d, id) ==
    /\ HasTable(d, "file_info")
    /\ "file_id" \in d.tables["file_info"].cols
    /\ \E i \in DOMAIN d.tables["file_info"].rows :
          d.tables["file_info"].rows[i]["file_id"] = id

-----------------------------------------------------------------------------
(* Bounds and input values                                                 *)

\* rows of a frame handed to the key derivation
MaxIdRows == 2
\* rows of a frame handed to a projection
MaxProjRows == 2

\* length of a name handed to normalize_string
MaxNameLen == 6
\* rows of a frame handed to the deduplication
MaxDupRows == 3
\* rows of a long-format frame handed to pivot_data
MaxPivotRows == 3
\* all sequences over S of length lo..hi
SeqsOf(S, lo, hi) == UNION {[1..n -> S] : n \in lo..hi}

\* dates as the export writes them
DateYears == {1899, 1900, 1901, 2000, 2020}
Pad(s, n) == [i \in 1..(n - Len(s)) |-> "0"] \o s
DateText(y, m, d) ==
    Pad(NatToStr(y), 4) \o <<"-">> \o Pad(NatToStr(m), 2) \o <<"-">> \o Pad(NatToStr(d), 2)
TimeSuffixes == {<<>>, <<"T", "0", "0", ":", "0", "0", ":", "0", "0">>}

\* characters of the field and method names of an export
NameChars == {"a", "B", "1", "_", "-", "(", ")"}

AdminNames == {<<"S", "a", "n", " ", "J", "u", "a", "n">>,
               <<"S", "a", "_", "n", "d", "-", "i", "a">>}
PlotNames == {<<"A", "-", "1", " ", "b">>, <<"Q", "2">>}
PlotDates == {DateText(1900, 1, 1),
              DateText(2020, 2, 29) \o <<"T", "0", "0", ":", "0", "0", ":", "0", "0">>}
Comments == {<<"o", "k">>, Null}

IdRow(a, p, din, dev, c) ==
    [k \in {"RegistrationUnit_Name", "MacroPlot_Name", "MacroPlot_DateIn",
            "SampleEvent_Date", "MacroPlot_Comment"} |->
       CASE k = "RegistrationUnit_Name" -> a
         [] k = "MacroPlot_Name" -> p
         [] k = "MacroPlot_DateIn" -> din
         [] k = "SampleEvent_Date" -> dev
         [] OTHER -> c]

\* rows of a plot or event join: the well-formed ones, the ones on which the
\* derivation raises (a missing name, an unreadable or impossible date), and
\* one of another admin unit and plot whose names differ from the first ones
\* after the fifth character, in case and in separators
IdRows ==
    {IdRow(a, p, din, dev, c) :
        a \in AdminNames, p \in PlotNames, din \in PlotDates, dev \in PlotDates,
        c \in Comments}
    \cup {IdRow(Null, <<"Q", "2">>, DateText(1900, 1, 1), DateText(1900, 1, 1), Null),
          IdRow(<<"S", "a", "n", " ", "J", "u", "a", "n">>, Null,
                DateText(1900, 1, 1), DateText(1900, 1, 1), Null),
          IdRow(<<"S", "a", "n", " ", "J", "u", "a", "n">>, <<"Q", "2">>,
                Null, Null, Null),
          IdRow(<<"S", "a", "n", " ", "J", "u", "a", "n">>, <<"Q", "2">>,
                <<"n", "/", "a">>, <<"n", "/", "a">>, Null),
          IdRow(<<"S", "a", "n", " ", "J", "u", "a", "n">>, <<"Q", "2">>,
                DateText(2021, 2, 30), DateText(2021, 2, 30), Null),
          IdRow(<<"S", "A", "N", " ", "J", "o", "s", "e">>, <<"a", "1", "B">>,
                DateText(1900, 1, 1), DateText(1900, 1, 1), Null)}

IdColSets == {{"RegistrationUnit_Name", "MacroPlot_Name", "MacroPlot_DateIn",
               "SampleEvent_Date", "MacroPlot_Comment"},
              {"RegistrationUnit_Name", "MacroPlot_Name", "MacroPlot_Comment"}}
IdNames == {"plot", "sampling_event", "project"}

ReverseSeq(s) == [i \in DOMAIN s |-> s[Len(s) + 1 - i]]

\* rows of a frame handed to the constructor with monitoring status fields
MaxStatusRows == 2
\* frames with the fields of a monitoring status, under the two roles that are
\* decomposed and under two that are not
StatusNames == {"monitoring_status", "sampling_event", "project", "species"}
StatusRow(p, b, x, d) ==
    [k \in Range(StatusFields) |->
       CASE k = "MonitoringStatus_Prefix" -> p
         [] k = "MonitoringStatus_Base" -> b
         [] k = "MonitoringStatus_Suffix" -> x
         [] OTHER -> d]
StatusRows ==
    {StatusRow(p, b, x, d) :
        p \in {Null, <<"5">>},
        b \in {<<"M", "e", "a", "s", "u", "r", "e">>, <<"8">>},
        x \in {Null, <<"7">>},
        d \in {Null, <<"b", "u", "r", "n">>, <<"2", "P", "o", "s", "t">>}}
StatusColSets ==
    {Range(StatusFields),
     {"MonitoringStatus_Prefix", "MonitoringStatus_Base", "MonitoringStatus_Suffix"},
     {"MonitoringStatus_Prefix", "SampleEvent_DefaultMonitoringStatus"}}

\* sources of the projections of the table recipes
ProjNames == {"admin_unit", "project"}
ProjSrcCols == {"RegistrationUnit_Name", "RegistrationUnit_Comment"}
ProjReqCols == {"RegistrationUnit_Name", "RegistrationUnit_Comment", "PlotID"}
ProjCells == {<<"S", "F">>, Null}
ProjRename ==
    [c \in ProjReqCols |->
       CASE c = "RegistrationUnit_Name" -> "admin_unit"
         [] c = "RegistrationUnit_Comment" -> "details"
         [] OTHER -> "plot_id"]
ProjFrames ==
    UNION {{[cols |-> cs, rows |-> rs] : rs \in SeqsOf([cs -> ProjCells], 1, MaxProjRows)} :
             cs \in (SUBSET ProjSrcCols) \ {{}}}

\* to_sql calls of one run
MaxWrites == 2
\* rows of a frame handed to to_sql
MaxFrameRows == 2
\* views defined on the destination during one run
MaxViews == 1

\* the frames handed to to_sql: three reference tables and a fact table, each
\* with its key column and some of two further columns
WriteNames == {"species", "monitoring_status", "admin_unit", "plot"}
KeyCol(name) ==
    IF name \in FilterNames THEN CheckCol(name)
    ELSE IF name = "file_info" THEN "file_id"
    ELSE name \o "_id"
ExtraCols == {"note", "code"}
WriteKeys == {<<"A">>, <<"B">>}
WriteFrames(name) ==
    {[cols |-> {KeyCol(name)} \cup xs,
      rows |-> [i \in DOMAIN ks |-> [c \in {KeyCol(name)} \cup xs |-> ks[i]]]] :
        xs \in SUBSET ExtraCols, ks \in SeqsOf(WriteKeys, 0, MaxFrameRows)}
LookupFaults == {"none"} \cup DbFaults
AppendFaults == {"none", "DataError"}

\* documents of one run of a driver
MaxDocs == 2
\* the documents: three that are well formed, with one method frame, two and
\* none, and one for each fatal condition; the rows of the tables of a
\* document carry its identifier
DocPool ==
    {[id |-> <<"1">>, fault |-> "none", methods |-> <<"fl">>],
     [id |-> <<"2">>, fault |-> "none", methods |-> <<"fl", "tr">>],
     [id |-> <<"3">>, fault |-> "none", methods |-> <<>>],
     [id |-> <<"u">>, fault |-> "unparseable", methods |-> <<"fl">>],
     [id |-> <<"v">>, fault |-> "missing_version", methods |-> <<"fl">>],
     [id |-> <<"t">>, fault |-> "missing_type", methods |-> <<"fl">>],
     [id |-> <<"c">>, fault |-> "bad_cast", methods |-> <<"fl">>]}
DocFrame(doc, t) ==
    [cols |-> {KeyCol(t)}, rows |-> <<[c \in {KeyCol(t)} |-> doc.id]>>]

\* frames the recipes deduplicate: long-format attribute rows, and an output
\* table
DupNames == {"event_detail", "method_data", "sampling_event"}
DupCols == {"event_id", "field_name", "data_value"}
DupCells == {<<"1">>, Null}
DupFrames ==
    {[cols |-> DupCols, rows |-> rs] : rs \in SeqsOf([DupCols -> DupCells], 0, MaxDupRows)}
DupSubsets == {NoSubset} \cup ((SUBSET DupCols) \ {{}})
DupArgs == {<<>>, <<{"event_id"}>>, <<{"event_id", "data_value"}>>}

\* long-format rows: two methods with their attributes, the declared type of
\* each (one of them not in type_mapping) and a value; a row without data_row_id
\* is an attribute of the method that has no value
PivotAttrs ==
    {<<(<<"T", "r">>), (<<"D", "B", "H">>), (<<"L", "o", "n", "g">>), (<<"0", "7">>)>>,
     <<(<<"T", "r">>), (<<"D", "B", "H">>), (<<"L", "o", "n", "g">>), (<<"x">>)>>,
     <<(<<"T", "r">>), (<<"H", "t">>), (<<"T", "e", "x", "t">>), (<<"x">>)>>,
     <<(<<"F", "L">>), (<<"C", "v">>), (<<"L", "o", "n", "g">>), (<<"5">>)>>,
     <<(<<"F", "L">>), (<<"Z", "z">>), (<<"B", "l", "o", "b">>), (<<"5">>)>>}
PivotEvents == {<<"1">>, <<"2">>}
PivotDataRows == {<<"1">>, Null}
LongCols == {"data_row_id", "event_id", "method", "field_name", "data_value", "data_type"}
LongRow(e, d, a) ==
    [c \in LongCols |->
       CASE c = "data_row_id" -> d
         [] c = "event_id" -> e
         [] c = "method" -> a[1]
         [] c = "field_name" -> a[2]
         [] c = "data_type" -> a[3]
         [] c = "data_value" -> IF d = Null THEN <<"n", "a", "n">> ELSE a[4]]
LongRows == {LongRow(e, d, a) : e \in PivotEvents, d \in PivotDataRows, a \in PivotAttrs}
PivotNames == {"method_data", "event_detail"}
\* ed_idx and md_idx of the recipes
PivotIndex(name) ==
    IF name = "method_data" THEN <<"event_id", "data_row_id">> ELSE <<"event_id">>
LongFrame(name, rs) ==
    IF name = "method_data" THEN [cols |-> LongCols, rows |-> rs]
    ELSE SelectCols([cols |-> LongCols, rows |-> rs],
                    {"event_id", "field_name", "data_value", "data_type"})

\* the elements of the record types, each a mapping from the tags of its
\* children to their texts
RegistrationUnitRec ==
    [c \in {"RegistrationUnit_GUID", "RegistrationUnit_Name", "RegistrationUnit_Comment"} |->
       CASE c = "RegistrationUnit_GUID" -> <<"r", "1">>
         [] c = "RegistrationUnit_Name" -> <<"S", "a", "n", " ", "J", "u", "a", "n">>
         [] c = "RegistrationUnit_Comment" -> <<"o", "k">>]
MacroPlotRec(g, n, r) ==
    [c \in {"MacroPlot_GUID", "MacroPlot_Name", "MacroPlot_RegistrationUnit_GUID", "MacroPlot_DateIn", "MacroPlot_Comment"} |->
       CASE c = "MacroPlot_GUID" -> g
         [] c = "MacroPlot_Name" -> n
         [] c = "MacroPlot_RegistrationUnit_GUID" -> r
         [] c = "MacroPlot_DateIn" -> <<"1", "9", "0", "0", "-", "0", "1", "-", "0", "1">>
         [] c = "MacroPlot_Comment" -> Null]
MMProjectRec(p, u) ==
    [c \in {"MM_MacroPlot_GUID", "MM_ProjectUnit_GUID"} |->
       CASE c = "MM_MacroPlot_GUID" -> p
         [] c = "MM_ProjectUnit_GUID" -> u]
ProjectUnitRec(u, n) ==
    [c \in {"ProjectUnit_GUID", "ProjectUnit_Name", "ProjectUnit_RegistrationUnitGUID"} |->
       CASE c = "ProjectUnit_GUID" -> u
         [] c = "ProjectUnit_Name" -> n
         [] c = "ProjectUnit_RegistrationUnitGUID" -> <<"r", "1">>]
SampleEventRec(e, p, d) ==
    [c \in {"SampleEvent_GUID", "SampleEvent_Plot_GUID", "SampleEvent_Date", "SampleEvent_Who", "SampleEvent_Comment", "SampleEvent_DefaultMonitoringStatus"} |->
       CASE c = "SampleEvent_GUID" -> e
         [] c = "SampleEvent_Plot_GUID" -> p
         [] c = "SampleEvent_Date" -> d
         [] c = "SampleEvent_Who" -> <<"m", "e">>
         [] c = "SampleEvent_Comment" -> Null
         [] c = "SampleEvent_DefaultMonitoringStatus" -> <<"P", "r", "e">>]
MMStatusRec(e) ==
    [c \in {"MM_MonitoringStatus_GUID", "MM_SampleEvent_GUID"} |->
       CASE c = "MM_MonitoringStatus_GUID" -> <<"s", "1">>
         [] c = "MM_SampleEvent_GUID" -> e]
MonitoringStatusRec ==
    [c \in {"MonitoringStatus_GUID", "MonitoringStatus_Prefix", "MonitoringStatus_Base", "MonitoringStatus_Suffix"} |->
       CASE c = "MonitoringStatus_GUID" -> <<"s", "1">>
         [] c = "MonitoringStatus_Prefix" -> <<"P", "r", "e">>
         [] c = "MonitoringStatus_Base" -> <<"B", "u", "r", "n">>
         [] c = "MonitoringStatus_Suffix" -> Null]
MethodAttributeRec(a, n, m, t) ==
    [c \in {"MethodAtt_ID", "MethodAtt_FieldName", "MethodAtt_Method_GUID", "MethodAtt_DataType_GUID"} |->
       CASE c = "MethodAtt_ID" -> a
         [] c = "MethodAtt_FieldName" -> n
         [] c = "MethodAtt_Method_GUID" -> m
         [] c = "MethodAtt_DataType_GUID" -> t]
AttributeDataRec(a, v) ==
    [c \in {"AttributeData_MethodAtt_ID", "AttributeData_DataRow_ID", "AttributeData_SampleRow_ID", "AttributeData_Value"} |->
       CASE c = "AttributeData_MethodAtt_ID" -> a
         [] c = "AttributeData_DataRow_ID" -> <<"1">>
         [] c = "AttributeData_SampleRow_ID" -> <<"w", "1">>
         [] c = "AttributeData_Value" -> v]
MethodRec(g, i, n) ==
    [c \in {"Method_GUID", "Method_ID", "Method_Name"} |->
       CASE c = "Method_GUID" -> g
         [] c = "Method_ID" -> i
         [] c = "Method_Name" -> n]
DataTypeRec(t, n) ==
    [c \in {"LU_DataType_GUID", "LU_DataType_Name"} |->
       CASE c = "LU_DataType_GUID" -> t
         [] c = "LU_DataType_Name" -> n]
SchemaVersionRec ==
    [c \in {"Schema_Version"} |->
       CASE c = "Schema_Version" -> <<"1">>]
MasterSpeciesRec ==
    [c \in {"MasterSpecies_Symbol", "MasterSpecies_ScientificName"} |->
       CASE c = "MasterSpecies_Symbol" -> <<"A", "B", "C", "O">>
         [] c = "MasterSpecies_ScientificName" -> <<"A", "b", "i", "e", "s">>]
SampleDataRec ==
    [c \in {"SampleData_SampleRow_ID", "SampleData_SampleEvent_GUID", "SampleData_SampleAtt_ID", "SampleData_Value"} |->
       CASE c = "SampleData_SampleRow_ID" -> <<"w", "1">>
         [] c = "SampleData_SampleEvent_GUID" -> <<"e", "1">>
         [] c = "SampleData_SampleAtt_ID" -> <<"b", "1">>
         [] c = "SampleData_Value" -> <<"5">>]
SampleAttributeRec ==
    [c \in {"SampleAtt_ID", "SampleAtt_FieldName", "SampleAtt_Method_ID", "SampleAtt_DataType_GUID"} |->
       CASE c = "SampleAtt_ID" -> <<"b", "1">>
         [] c = "SampleAtt_FieldName" -> <<"V", "i", "s">>
         [] c = "SampleAtt_Method_ID" -> <<"1">>
         [] c = "SampleAtt_DataType_GUID" -> <<"t", "1">>]
LocalSpeciesRec ==
    [c \in {"LocalSpecies_GUID", "LocalSpecies_Symbol"} |->
       CASE c = "LocalSpecies_GUID" -> <<"s", "p">>
         [] c = "LocalSpecies_Symbol" -> <<"A", "B", "C", "O">>]

\* documents of an FFIFile: the root tag (with or without a namespace), the
\* record type without an element if there is one, how the events, plots and
\* projects are linked, and the attribute data present
RootTags == {<<"{", "h", "t", "t", "p", ":", "/", "/", "w", ".", "o", "r", "g", "/", "f", "}", "D">>, <<"D">>}
EmptyTypes == Range(needed_tables) \cup {"none"}
PlotLinks == {"one", "two", "dangling", "no_admin"}
\* the attribute data: a value of Cv (method FL), one of Ht (method Tr), one
\* of an attribute the document does not declare
DataPool == <<AttributeDataRec(<<"a", "1">>, <<"5">>), AttributeDataRec(<<"a", "2">>, <<"x">>),
              AttributeDataRec(<<"a", "9">>, <<"5">>)>>
DataSets == SUBSET (DOMAIN DataPool) \ {{}}
\* the elements of each record type of a document
DocRecordsOf(links, data) ==
    [t \in Range(needed_tables) |->
       CASE t = "MacroPlot" ->
               <<MacroPlotRec(<<"p", "1">>, <<"A", "-", "1", " ", "b">>, IF links = "no_admin" THEN <<"r", "9">> ELSE <<"r", "1">>)>>
               \o (IF links = "two" THEN <<MacroPlotRec(<<"p", "2">>, <<"Q", "2">>, <<"r", "1">>)>> ELSE <<>>)
         [] t = "RegistrationUnit" -> <<RegistrationUnitRec>>
         [] t = "MM_ProjectUnit_MacroPlot" ->
               <<MMProjectRec(<<"p", "1">>, <<"u", "1">>)>>
               \o (IF links = "two" THEN <<MMProjectRec(<<"p", "1">>, <<"u", "2">>), MMProjectRec(<<"p", "2">>, <<"u", "1">>)>>
                   ELSE <<>>)
         [] t = "ProjectUnit" ->
               <<ProjectUnitRec(<<"u", "1">>, <<"R", "x">>)>>
               \o (IF links = "two" THEN <<ProjectUnitRec(<<"u", "2">>, <<"T", "h">>)>> ELSE <<>>)
         [] t = "SampleEvent" ->
               <<SampleEventRec(<<"e", "1">>, IF links = "dangling" THEN <<"p", "9">> ELSE <<"p", "1">>,
                                DateText(2020, 2, 29))>>
               \o (IF links = "two"
                   THEN <<SampleEventRec(<<"e", "2">>, <<"p", "2">>, DateText(1900, 1, 1))>> ELSE <<>>)
         [] t = "MM_MonitoringStatus_SampleEvent" -> <<MMStatusRec(<<"e", "1">>)>>
         [] t = "MonitoringStatus" -> <<MonitoringStatusRec>>
         [] t = "MethodAttribute" ->
               <<MethodAttributeRec(<<"a", "1">>, <<"C", "v">>, <<"g", "1">>, <<"t", "1">>),
                 MethodAttributeRec(<<"a", "2">>, <<"H", "t">>, <<"g", "2">>, <<"t", "2">>)>>
         [] t = "AttributeData" -> SelectSeq(DataPool, LAMBDA r : \E k \in data : DataPool[k] = r)
         [] t = "Method" -> <<MethodRec(<<"g", "1">>, <<"1">>, <<"F", "L">>), MethodRec(<<"g", "2">>, <<"2">>, <<"T", "r">>)>>
         [] t = "LU_DataType" -> <<DataTypeRec(<<"t", "1">>, <<"L", "o", "n", "g">>), DataTypeRec(<<"t", "2">>, <<"T", "e", "x", "t">>)>>
         [] t = "Schema_Version" -> <<SchemaVersionRec>>
         [] t = "MasterSpecies" -> <<MasterSpeciesRec>>
         [] t = "SampleData" -> <<SampleDataRec>>
         [] t = "SampleAttribute" -> <<SampleAttributeRec>>
         [] t = "LocalSpecies" -> <<LocalSpeciesRec>>]
Docs ==
    {[tag |-> tag, id |-> <<"f", "1">>, file |-> <<"a", ".", "x", "m", "l">>,
      links |-> links, data |-> data, empty |-> empty,
      records |-> [t \in Range(needed_tables) |->
                     IF t = empty THEN <<>> ELSE DocRecordsOf(links, data)[t]]] :
       tag \in RootTags, empty \in EmptyTypes, links \in PlotLinks, data \in DataSets}

-----------------------------------------------------------------------------
(* State                                                                   *)

NoDn == [called |-> FALSE, arg |-> <<>>, ymd |-> <<0, 0, 0>>,
         ret |-> [err |-> "none", val |-> <<>>]]
NoCall == [op |-> "none", data |-> EmptyDF, req |-> ListReq({}),
           pre |-> NoFrame, res |-> NoFrame, err |-> "none"]

\* no to_sql call yet; of a call: the library and the frame it was made on
\* (name, df0), the destination it found (db0), self.df after _filter_exists
\* (df1), what the lookup raised, the path taken, the error that left the call,
\* and inside _add_new_columns the connection's view (tx), cols_list and the
\* statement an interruption came before (at)
NoWrite == [pc |-> "idle", n |-> 0, views |-> 0, lib |-> "<none>", name |-> "<none>",
            df0 |-> EmptyDF, db0 |-> EmptyDb, df1 |-> EmptyDF, lookup |-> "none",
            path |-> "none", err |-> "none", tx |-> EmptyDb, cols_list |-> {},
            at |-> "none", steps |-> <<>>]

\* a driver before its first document; ip is the step of the current
\* document that comes next, 0 between two documents; written lists the to_sql
\* calls made
NoDrv == [driver |-> "none", status |-> "running", docs |-> <<>>, ip |-> 0,
          written |-> <<>>, err |-> "none"]

NoNs == [called |-> 0, arg |-> <<>>, ret |-> <<>>, ret2 |-> <<>>]

\* no FFIFile yet; pc is the statement of __init__ that comes next
NoFFI == [pc |-> "none", doc |-> <<>>, id |-> <<>>, file |-> <<>>, namespace |-> <<>>,
          data_map |-> <<>>, ffi_version |-> <<>>, base |-> <<>>, tables |-> <<>>,
          methods |-> <<>>, err |-> "none"]

Init ==
    /\ drv = NoDrv
    /\ dn = NoDn
    /\ frame = NoFrame
    /\ fcall = NoCall
    /\ db = EmptyDb
    /\ wr = NoWrite
    /\ ns = NoNs
    /\ ffi = NoFFI

-----------------------------------------------------------------------------
(* Actions                                                                 *)

\* a call of to_datenum on the text of a date
ToDatenum ==
    /\ ~dn.called
    /\ \E y \in DateYears, m \in 1..12, d \in 1..31, sfx \in TimeSuffixes :
          dn' = [called |-> TRUE, arg |-> DateText(y, m, d) \o sfx, ymd |-> <<y, m, d>>,
                 ret |-> to_datenum(DateText(y, m, d) \o sfx)]
    /\ UNCHANGED <<frame, fcall, db, wr, drv, ns, ffi>>

\* normalize_string on a name of the export
NormalizeString ==
    /\ ns.called = 0
    /\ \E s \in SeqsOf(NameChars, 0, MaxNameLen) :
          ns' = [NoNs EXCEPT !.called = 1, !.arg = s, !.ret = normalize_string(s)]
    /\ UNCHANGED <<dn, frame, fcall, db, wr, drv, ffi>>

\* normalize_string on a name it returned
NormalizeAgain ==
    /\ ns.called = 1
    /\ ns' = [ns EXCEPT !.called = 2, !.ret2 = normalize_string(ns.ret)]
    /\ UNCHANGED <<dn, frame, fcall, db, wr, drv, ffi>>

\* XMLFrame(name, data): the object exists only if the constructor returns
Construct(lib, name, data) ==
    \E r \in {NewXMLFrame(lib, name, data, FALSE, FALSE)} :
       /\ frame' = r.xf
       /\ fcall' = [NoCall EXCEPT !.op = "init", !.data = data, !.err = r.err]

\* a staging frame of the plot or event join
NewIdFrame ==
    /\ fcall.op = "none"
    /\ \E lib \in Libs, name \in IdNames, cs \in IdColSets,
          rs \in SeqsOf(IdRows, 1, MaxIdRows) :
          Construct(lib, name, SelectCols([cols |-> DOMAIN rs[1], rows |-> rs], cs))
    /\ UNCHANGED <<dn, db, wr, drv, ns, ffi>>

\* a second run over the same content, its rows in the opposite order
RerunIdFrame ==
    /\ fcall.op = "init"
    /\ fcall.err = "none"
    /\ \E data \in {[fcall.data EXCEPT !.rows = ReverseSeq(@)]} :
       \E r \in {NewXMLFrame(frame.lib, frame.name, data, FALSE, FALSE)} :
          /\ frame' = r.xf
          /\ fcall' = [NoCall EXCEPT !.op = "rerun", !.data = data,
                                     !.pre = frame, !.err = r.err]
    /\ UNCHANGED <<dn, db, wr, drv, ns, ffi>>

\* a frame with monitoring status fields, under any of the roles
NewStatusFrame ==
    /\ fcall.op = "none"
    /\ \E lib \in Libs, name \in StatusNames, cs \in StatusColSets,
          rs \in SeqsOf(StatusRows, 1, MaxStatusRows) :
          \E data \in {SelectCols([cols |-> DOMAIN rs[1], rows |-> rs], cs)} :
          \E r \in {NewXMLFrame(lib, name, data, FALSE, FALSE)} :
             /\ frame' = r.xf
             /\ fcall' = [NoCall EXCEPT !.op = "init", !.data = data, !.err = r.err,
                                        !.pre = MkFrame(lib, name, data, data.cols, FALSE)]
    /\ UNCHANGED <<dn, db, wr, drv, ns, ffi>>

\* a frame the recipes project from
NewProjFrame ==
    /\ fcall.op = "none"
    /\ \E lib \in Libs, name \in ProjNames, data \in ProjFrames :
          Construct(lib, name, data)
    /\ UNCHANGED <<dn, db, wr, drv, ns, ffi>>

\* frame[cols] with a list or with a mapping
Project(req) ==
    /\ frame # NoFrame
    /\ \E r \in {GetItem(frame, req)} :
          /\ frame' = r.src
          /\ fcall' = [NoCall EXCEPT !.op = "getitem", !.req = req, !.pre = frame,
                                     !.res = r.res, !.err = r.err]
    /\ UNCHANGED <<dn, db, wr, drv, ns, ffi>>
GetItemList == \E cs \in SUBSET ProjReqCols : Project(ListReq(cs))
GetItemDict ==
    \E cs \in (SUBSET ProjReqCols) \ {{}} : Project(DictReq([c \in cs |-> ProjRename[c]]))

\* a frame a recipe is about to deduplicate
NewDupFrame ==
    /\ fcall.op = "none"
    /\ \E name \in DupNames, data \in DupFrames :
          /\ frame' = MkFrame("ffi_reader", name, data, data.cols, FALSE)
          /\ fcall' = [NoCall EXCEPT !.op = "frame", !.data = data]
    /\ UNCHANGED <<dn, db, wr, drv, ns, ffi>>

\* frame.drop_duplicates(subset=...), and the same call once more
Dedup(op, req, r) ==
    /\ frame' = r.xf
    /\ fcall' = [fcall EXCEPT !.op = op, !.req = req, !.pre = frame, !.err = r.err]
    /\ UNCHANGED <<dn, db, wr, drv, ns, ffi>>
FrameDropDuplicates ==
    /\ fcall.op = "frame"
    /\ \E subset \in DupSubsets :
          Dedup("drop_duplicates", ListReq(subset), DropDuplicates(frame, subset))
FrameDropDuplicatesAgain ==
    /\ fcall.op = "drop_duplicates"
    /\ fcall.err = "none"
    /\ Dedup("drop_duplicates_again", fcall.req, DropDuplicates(frame, fcall.req.cols))

\* final.drop_duplicate_fields(idx), and the same call once more
FrameDropDuplicateFields ==
    /\ fcall.op = "frame"
    /\ \E args \in DupArgs :
          Dedup("drop_duplicate_fields",
                [kind |-> "args", cols |-> UNION Range(args), to |-> args],
                DropDuplicateFields(frame, args))
FrameDropDuplicateFieldsAgain ==
    /\ fcall.op = "drop_duplicate_fields"
    /\ fcall.err = "none"
    /\ Dedup("drop_duplicate_fields_again", fcall.req,
             DropDuplicateFields(frame, fcall.req.to))

\* the long-format frame of event_detail or method_data, as the recipe has it
\* before pivot_data
NewLongFrame ==
    /\ fcall.op = "none"
    /\ \E lib \in Libs, name \in PivotNames, rs \in SeqsOf(LongRows, 1, MaxPivotRows) :
       \E data \in {LongFrame(name, rs)} :
          /\ frame' = MkFrame(lib, name, data, data.cols, FALSE)
          /\ fcall' = [NoCall EXCEPT !.op = "long", !.data = data]
    /\ UNCHANGED <<dn, db, wr, drv, ns, ffi>>

\* final.pivot_data(idx)
FramePivotData ==
    /\ fcall.op = "long"
    /\ \E r \in {IF frame.lib = "legacy"
                 THEN LegacyPivotData(frame, PivotIndex(frame.name))
                 ELSE PivotData(frame, PivotIndex(frame.name))} :
          /\ frame' = r.xf
          /\ fcall' = [fcall EXCEPT !.op = "pivot_data", !.pre = frame, !.err = r.err]
    /\ UNCHANGED <<dn, db, wr, drv, ns, ffi>>

\* table.to_sql(conn): the existence filter and the append. A column the table
\* lacks makes the append a ProgrammingError, and _add_new_columns is entered.
ToSql(lib, name, data, lf, af) ==
    /\ \E f \in {FilterExists(lib, name, data, db, lf)} :
       \E r \in {IF f.err = "none" /\ Len(f.df.rows) > 0 /\ af = "none"
                 THEN PdToSql(db, name, f.df, AppendMode)
                 ELSE [err |-> "none", db |-> db]} :
       \E w \in {[NoWrite EXCEPT !.pc = "done", !.n = wr.n + 1,
                                  !.views = wr.views, !.lib = lib,
                                  !.name = name, !.df0 = data, !.db0 = db,
                                  !.df1 = f.df,
                                  !.lookup = IF name \in FilterNamesOf(lib)
                                             THEN ReadDistinct(db, name, CheckCol(name), lf).err
                                             ELSE "none"]} :
          /\ frame' = MkFrame(lib, name, f.df, data.cols, FALSE)
          /\ db' = r.db
          /\ wr' = IF f.err # "none" THEN [w EXCEPT !.path = "raised", !.err = f.err]
                   ELSE IF Len(f.df.rows) = 0 THEN [w EXCEPT !.path = "skip"]
                   ELSE IF af # "none" THEN [w EXCEPT !.path = "append", !.err = af]
                   ELSE IF r.err = "ProgrammingError"
                   THEN [w EXCEPT !.path = "evolve", !.pc = "begin"]
                   ELSE [w EXCEPT !.path = "append", !.err = r.err]
    /\ UNCHANGED <<dn, fcall, ns, ffi>>

\* a run imports one of the two libraries and hands it frames
WriteFrame ==
    /\ wr.pc \in {"idle", "done", "failed"}
    /\ wr.n < MaxWrites
    /\ \E lib \in (IF wr.n = 0 THEN Libs ELSE {wr.lib}), name \in WriteNames,
          lf \in LookupFaults, af \in AppendFaults :
          \E data \in WriteFrames(name) : ToSql(lib, name, data, lf, af)
    /\ UNCHANGED drv

\* the statements of _add_new_columns, in the order of the block
EvolvePcs == <<"detach", "rename", "write", "copy", "drop", "reattach", "commit">>

\* the statement that follows a statement of the block, "done" after the last
AfterStepDropFirst(pc) ==
    CASE pc = "detach" -> "rename"
      [] pc = "rename" -> "write"
      [] pc = "write" -> "drop"
      [] pc = "drop" -> "copy"
      [] pc = "copy" -> "reattach"
      [] pc = "reattach" -> "commit"
      [] pc = "commit" -> "done"
AfterStep(pc) ==
    CASE pc = "detach" -> "rename"
      [] pc = "rename" -> "write"
      [] pc = "write" -> "copy"
      [] pc = "copy" -> "drop"
      [] pc = "drop" -> "reattach"
      [] pc = "reattach" -> "commit"
      [] pc = "commit" -> "done"

\* with conn.begin(), and the reflection of the table
Begin ==
    /\ wr.pc = "begin"
    /\ wr' = [wr EXCEPT !.pc = "detach", !.tx = db,
                        !.cols_list = ReflectCols(db, wr.name)]
    /\ UNCHANGED <<dn, frame, fcall, db, drv, ns, ffi>>

\* one statement of the block: it moves on, or its error rolls the block back
\* and leaves to_sql; steps lists the statements that have run
Statement(pc, r) ==
    /\ wr.pc = pc
    /\ IF r.err = "none"
       THEN /\ wr' = [wr EXCEPT !.pc = AfterStep(pc), !.tx = r.db,
                                !.steps = Append(@, pc)]
            /\ db' = Durable(db, r.db)
       ELSE /\ wr' = [wr EXCEPT !.pc = "failed", !.err = r.err, !.at = pc]
            /\ db' = db
    /\ UNCHANGED <<dn, fcall, drv, ns, ffi>>

Detach ==
    /\ \E r \in {DepsSaveAndDrop(wr.tx, wr.name)} : Statement("detach", r)
    /\ UNCHANGED frame
Rename ==
    /\ \E r \in {RenameToBackup(wr.tx, wr.name)} : Statement("rename", r)
    /\ UNCHANGED frame
WriteNew ==
    /\ \E r \in {PdToSql(wr.tx, wr.name, NullFill(frame.df, wr.cols_list), "fail")} :
          Statement("write", r)
    /\ frame' = [frame EXCEPT !.df = NullFill(frame.df, wr.cols_list)]
InsertBack ==
    /\ \E r \in {CopyBack(wr.tx, wr.name, wr.cols_list)} : Statement("copy", r)
    /\ UNCHANGED frame
DropOld ==
    /\ \E r \in {DropBackup(wr.tx, wr.name)} : Statement("drop", r)
    /\ UNCHANGED frame
Reattach ==
    /\ \E r \in {DepsRestore(wr.tx, wr.name)} : Statement("reattach", r)
    /\ UNCHANGED frame
\* transaction.commit()
Commit ==
    /\ wr.pc = "commit"
    /\ db' = wr.tx
    /\ wr' = [wr EXCEPT !.pc = AfterStep("commit"), !.steps = Append(@, "commit")]
    /\ UNCHANGED <<dn, frame, fcall, drv, ns, ffi>>

\* the block is left before one of its statements (the process dies, the
\* connection drops): the transaction is rolled back
Interrupt ==
    /\ wr.pc \in Range(EvolvePcs)
    /\ wr' = [wr EXCEPT !.pc = "failed", !.err = "Interrupted", !.at = wr.pc]
    /\ db' = db
    /\ UNCHANGED <<dn, frame, fcall, drv, ns, ffi>>

\* a user of the destination defines a view on one of its tables
CreateView ==
    /\ wr.pc \in {"idle", "done", "failed"}
    /\ wr.views < MaxViews
    /\ \E name \in DOMAIN db.tables :
          /\ ~db.tables[name].deps
          /\ db' = [db EXCEPT !.tables[name].deps = TRUE]
    /\ wr' = [NoWrite EXCEPT !.n = wr.n, !.views = wr.views + 1, !.lib = wr.lib]
    /\ UNCHANGED <<dn, frame, fcall, drv, ns, ffi>>

\* the driver takes the next file of the directory
LoadDoc ==
    /\ drv.status = "running"
    /\ drv.ip = 0
    /\ Len(drv.docs) < MaxDocs
    /\ \E driver \in (IF drv.driver = "none" THEN Drivers ELSE {drv.driver}),
          doc \in DocPool :
          drv' = [drv EXCEPT !.driver = driver, !.docs = Append(@, doc), !.ip = 1]
    /\ UNCHANGED <<dn, frame, fcall, db, wr, ns, ffi>>

CurStep == Program(drv.driver)[drv.ip]
Stepping(ops) == drv.status = "running" /\ drv.ip > 0 /\ CurStep.op \in ops
\* the step raises, or the driver goes on: to the next step, or after the last
\* to the next document
Raise(err) == [drv EXCEPT !.status = AfterRaise(drv.driver), !.err = err]
Advance ==
    IF drv.ip = Len(Program(drv.driver)) THEN [drv EXCEPT !.ip = 0]
    ELSE [drv EXCEPT !.ip = @ + 1]
RaiseOrAdvance ==
    IF FaultAt(LibOf(drv.driver), CurDoc.fault) = CurStep THEN Raise(CurDoc.fault)
    ELSE IF /\ LibOf(drv.driver) = "ffi_reader"
            /\ CurStep = [op |-> "build", t |-> "method_data"]
            /\ CurDoc.methods = <<>>
    THEN Raise("IndexError")
    ELSE Advance

\* FFIFile(file): the parse, the namespace, the record types, the version
DrvConstruct ==
    /\ Stepping({"FFIFile"})
    /\ drv' = RaiseOrAdvance
    /\ UNCHANGED <<dn, frame, fcall, db, wr, ns, ffi>>

\* the staging tables or one output table are built
DrvBuild ==
    /\ Stepping({"build"})
    /\ drv' = RaiseOrAdvance
    /\ UNCHANGED <<dn, frame, fcall, db, wr, ns, ffi>>

\* exists_admin_export: a document that is in file_info already is passed over
DrvExists ==
    /\ Stepping({"exists_admin_export"})
    /\ drv' = IF ExistsAdminExport(db, CurDoc.id) THEN [drv EXCEPT !.ip = 0]
              ELSE Advance
    /\ UNCHANGED <<dn, frame, fcall, db, wr, ns, ffi>>

\* a method of FFIFile that xml_to_rdb.py calls by name: one the class does not
\* define is an AttributeError
DrvCall ==
    /\ Stepping({"filter_existing_data", "create_tables", "get_tables"})
    /\ drv' = IF CurStep.op \in FFIFileMethods(LibOf(drv.driver)) THEN Advance
              ELSE Raise("AttributeError")
    /\ UNCHANGED <<dn, frame, fcall, db, wr, ns, ffi>>

\* table.to_sql(pg_con2) for the next table of the list
DrvWrite ==
    /\ Stepping({"to_sql"})
    /\ wr.pc \in {"idle", "done", "failed"}
    /\ \E lf \in LookupFaults, af \in AppendFaults :
          ToSql(LibOf(drv.driver), CurStep.t, DocFrame(CurDoc, CurStep.t), lf, af)
    /\ drv' = [(IF wr'.err # "none" THEN Raise(wr'.err) ELSE Advance)
                 EXCEPT !.written = Append(@, [doc |-> Len(drv.docs), t |-> CurStep.t])]

\* FFIFile(file), up to the namespace of the root tag
FFIOpen ==
    /\ ffi.pc = "none"
    /\ \E doc \in Docs :
          \E n \in {RootNamespace(doc.tag)} :
             ffi' = [NoFFI EXCEPT !.doc = doc, !.id = doc.id, !.file = doc.file,
                                  !.namespace = n.val, !.err = n.err,
                                  !.pc = IF n.err = "none" THEN "_parse_data"
                                         ELSE "failed"]
    /\ UNCHANGED <<dn, frame, fcall, db, wr, drv, ns>>

\* self._parse_data()
FFIParseData ==
    /\ ffi.pc = "_parse_data"
    /\ \E r \in {ParseData(ffi.doc.records)} :
          ffi' = [ffi EXCEPT !.data_map = r.data_map, !.err = r.err,
                             !.pc = IF r.err = "none" THEN "ffi_version" ELSE "failed"]
    /\ UNCHANGED <<dn, frame, fcall, db, wr, drv, ns>>

\* self.ffi_version = self._data_map['Schema_Version']['Schema_Version'][0]
FFIVersion ==
    /\ ffi.pc = "ffi_version"
    /\ ffi' = IF "Schema_Version" \in ffi.data_map["Schema_Version"].cols
              THEN [ffi EXCEPT
                      !.ffi_version = ffi.data_map["Schema_Version"].rows[1]["Schema_Version"],
                      !.pc = "_create_cte_tables"]
              ELSE [ffi EXCEPT !.err = "KeyError", !.pc = "failed"]
    /\ UNCHANGED <<dn, frame, fcall, db, wr, drv, ns>>

\* self._create_cte_tables()
FFICreateCteTables ==
    /\ ffi.pc = "_create_cte_tables"
    /\ \E r \in {CreateCteTables(ffi.data_map)} :
          ffi' = [ffi EXCEPT !.base = r.base, !.err = r.err,
                             !.pc = IF r.err = "none" THEN "_create_tables"
                                    ELSE "failed"]
    /\ UNCHANGED <<dn, frame, fcall, db, wr, drv, ns>>

\* self._create_tables()
FFICreateTables ==
    /\ ffi.pc = "_create_tables"
    /\ \E r \in {CreateTables(ffi)} :
          ffi' = [ffi EXCEPT !.tables = r.tables, !.err = r.err,
                             !.pc = IF r.err = "none" THEN "getters" ELSE "failed"]
    /\ UNCHANGED <<dn, frame, fcall, db, wr, drv, ns>>

\* the getters that end __init__; get_methods reads the staging frame of the
\* attribute data
FFIGetters ==
    /\ ffi.pc = "getters"
    /\ ffi' = [ffi EXCEPT
                 !.methods = Unique([i \in DOMAIN SelectSeq(ffi.base.attr_data.df.rows,
                                              LAMBDA r : r["AttributeData_Value"] # Null) |->
                                       SelectSeq(ffi.base.attr_data.df.rows,
                                          LAMBDA r : r["AttributeData_Value"] # Null)[i]["Method_Name"]]),
                 !.pc = "constructed"]
    /\ UNCHANGED <<dn, frame, fcall, db, wr, drv, ns>>

NextDate == ToDatenum
NextIds == NewIdFrame \/ RerunIdFrame
NextProj == NewProjFrame \/ GetItemList \/ GetItemDict

SpecDate == Init /\ [][NextDate]_vars
SpecIds == Init /\ [][NextIds]_vars
SpecProj == Init /\ [][NextProj]_vars

NextStatus == NewStatusFrame
SpecStatus == Init /\ [][NextStatus]_vars

NextClean == NormalizeString \/ NormalizeAgain
SpecClean == Init /\ [][NextClean]_vars

NextDedup ==
    \/ NewDupFrame \/ FrameDropDuplicates \/ FrameDropDuplicatesAgain
    \/ FrameDropDuplicateFields \/ FrameDropDuplicateFieldsAgain
SpecDedup == Init /\ [][NextDedup]_vars

NextPivot == NewLongFrame \/ FramePivotData
SpecPivot == Init /\ [][NextPivot]_vars

NextFile ==
    \/ FFIOpen \/ FFIParseData \/ FFIVersion \/ FFICreateCteTables
    \/ FFICreateTables \/ FFIGetters
SpecFile == Init /\ [][NextFile]_vars

NextWrite ==
    \/ WriteFrame \/ Begin \/ Detach \/ Rename \/ WriteNew \/ InsertBack
    \/ DropOld \/ Reattach \/ Commit \/ Interrupt \/ CreateView
SpecWrite == Init /\ [][NextWrite]_vars

NextDriver ==
    LoadDoc \/ DrvConstruct \/ DrvBuild \/ DrvExists \/ DrvCall \/ DrvWrite
SpecDriver == Init /\ [][NextDriver]_vars

-----------------------------------------------------------------------------
(* Claims on the date number and the synthetic keys                        *)

\* the days from 1900-01-01 to the first day of year y: 365 a year and one
\* more for every leap year between
LeapYears(lo, hi) == Cardinality({k \in lo..hi : IsLeap(k)})
DaysToYear(y) ==
    IF y >= 1900 THEN 365 * (y - 1900) + LeapYears(1900, y - 1)
    ELSE 0 - (365 * (1900 - y) + LeapYears(y, 1899))
DaysSince1900(y, m, d) == DaysToYear(y) + DaysBeforeMonth(y, m) + (d - 1)

\* C9: to_datenum returns "0" for 1900-01-01 and "1" for 1900-01-02: for every
\* date it returns the number of days from 1900-01-01 to that date.
C9_DateOrdinalEpoch ==
    (dn.called /\ dn.ret.err = "none") =>
        /\ dn.ymd = <<1900, 1, 1>> => dn.ret.val = <<"0">>
        /\ dn.ymd = <<1900, 1, 2>> => dn.ret.val = <<"1">>
        /\ dn.ret.val = IntToStr(DaysSince1900(dn.ymd[1], dn.ymd[2], dn.ymd[3]))

\* the rows whose keys one run, or two runs over the same content, derived
KeyedRows == Range(frame.df.rows) \cup Range(fcall.pre.df.rows)
SameCells(r1, r2, cs) == \A c \in cs : r1[c] = r2[c]

\* C8: the PlotID that _create_ids of ffi_reader/base.py derives for a row
\* depends only on its (RegistrationUnit_Name, MacroPlot_Name) and the EventID
\* only on those and SampleEvent_Date: rows that agree on them get the same
\* key, whatever their other columns, their position in the table and the run
\* that computes them.
C8_KeyDeterminism ==
    frame.lib = "ffi_reader" =>
    /\ (frame.name = "plot" /\ "PlotID" \in frame.df.cols) =>
          \A r1 \in KeyedRows, r2 \in KeyedRows :
             SameCells(r1, r2, {"RegistrationUnit_Name", "MacroPlot_Name"})
                => r1["PlotID"] = r2["PlotID"]
    /\ (frame.name = "sampling_event" /\ "EventID" \in frame.df.cols) =>
          \A r1 \in KeyedRows, r2 \in KeyedRows :
             SameCells(r1, r2, {"RegistrationUnit_Name", "MacroPlot_Name", "SampleEvent_Date"})
                => r1["EventID"] = r2["EventID"]

\* an event frame derived twice, with two rows of one event that differ in
\* another column
C8_Witness ==
    /\ fcall.op = "rerun"
    /\ frame.lib = "ffi_reader"
    /\ frame.name = "sampling_event"
    /\ "EventID" \in frame.df.cols
    /\ \E i \in DOMAIN frame.df.rows, j \in DOMAIN frame.df.rows :
          /\ i # j
          /\ SameCells(frame.df.rows[i], frame.df.rows[j],
                       {"RegistrationUnit_Name", "MacroPlot_Name", "SampleEvent_Date"})
          /\ frame.df.rows[i]["MacroPlot_DateIn"] # frame.df.rows[j]["MacroPlot_DateIn"]

\* the fragments of a key as the library of the frame normalises them
AdminFragment(lib, v) == IF lib = "legacy" THEN LegacyNormAdmin(v) ELSE NormAdmin(v)
PlotFragment(lib, v) == IF lib = "legacy" THEN LegacyNormPlot(v) ELSE NormPlot(v)

\* C10: for a frame named "plot" the PlotID is admin-fragment "-" plot-fragment
\* with no date component; for a frame named "sampling_event" the EventID is
\* admin-fragment "-" plot-fragment "-" date number of SampleEvent_Date; in
\* both generations of _create_ids.
C10_KeyComposition ==
    /\ (frame.name = "plot" /\ "PlotID" \in frame.df.cols) =>
          \A r \in Range(frame.df.rows) :
             r["PlotID"] = AdminFragment(frame.lib, r["RegistrationUnit_Name"])
                           \o <<"-">> \o PlotFragment(frame.lib, r["MacroPlot_Name"])
    /\ (frame.name = "sampling_event" /\ "EventID" \in frame.df.cols) =>
          \A r \in Range(frame.df.rows) :
             r["EventID"] = AdminFragment(frame.lib, r["RegistrationUnit_Name"])
                            \o <<"-">> \o PlotFragment(frame.lib, r["MacroPlot_Name"])
                            \o <<"-">> \o to_datenum(r["SampleEvent_Date"]).val

\* the plot rows of the frame of ffi_reader/base.py, once keyed
PlotRows ==
    IF frame.lib = "ffi_reader" /\ frame.name = "plot" /\ "PlotID" \in frame.df.cols
    THEN Range(frame.df.rows) ELSE {}

\* C27 as stated: two plot rows whose (RegistrationUnit_Name, MacroPlot_Name)
\* pairs differ get different PlotID values.
C27_PlotKeyInjective ==
    \A r1 \in PlotRows, r2 \in PlotRows :
       ~SameCells(r1, r2, {"RegistrationUnit_Name", "MacroPlot_Name"})
          => r1["PlotID"] # r2["PlotID"]

\* C27, amended: two plot rows get different PlotID values when their pairs
\* of fragments differ, the admin fragment being the first five characters of
\* RegistrationUnit_Name in upper case without '-', '_' and ' ', the plot
\* fragment the word characters of MacroPlot_Name in upper case without '_'.
C27_PlotKeyInjectiveOnFragments ==
    \A r1 \in PlotRows, r2 \in PlotRows :
       <<NormAdmin(r1["RegistrationUnit_Name"]), NormPlot(r1["MacroPlot_Name"])>>
          # <<NormAdmin(r2["RegistrationUnit_Name"]), NormPlot(r2["MacroPlot_Name"])>>
          => r1["PlotID"] # r2["PlotID"]

\* two plots of one name in two admin units, keyed apart
C27_Witness ==
    \E r1 \in PlotRows, r2 \in PlotRows :
       /\ NormPlot(r1["MacroPlot_Name"]) = NormPlot(r2["MacroPlot_Name"])
       /\ NormAdmin(r1["RegistrationUnit_Name"]) # NormAdmin(r2["RegistrationUnit_Name"])
       /\ r1["PlotID"] # r2["PlotID"]

-----------------------------------------------------------------------------
(* Claims on the cleaning of names                                         *)

\* C11: normalize_string applied to a name it returned gives that name again.
C11_CleanIdempotent ==
    ns.called = 2 => ns.ret2 = ns.ret

-----------------------------------------------------------------------------
(* Claims on the deduplication                                             *)

\* the columns the last deduplication compared rows on
DedupKey ==
    IF fcall.op \in {"drop_duplicates", "drop_duplicates_again"}
    THEN SubsetCols(fcall.pre.df, fcall.req.cols)
    ELSE fcall.req.cols \cup {"field_name"}

\* res holds, in their order, exactly the rows of orig that no earlier row of
\* orig equals on the columns cs
FirstOccurrences(orig, res, cs) ==
    \E at \in [DOMAIN res -> DOMAIN orig] :
       /\ \A k \in DOMAIN res : res[k] = orig[at[k]]
       /\ \A k, l \in DOMAIN res : k < l => at[k] < at[l]
       /\ \A k \in DOMAIN res : \A j \in 1..(at[k] - 1) : ~SameCells(orig[j], orig[at[k]], cs)
       /\ \A i \in DOMAIN orig :
             \E k \in DOMAIN res : at[k] <= i /\ SameCells(orig[at[k]], orig[i], cs)

\* C12: a deduplication that returns keeps of every group of rows equal on the
\* compared columns the first one, in the order of the frame, and the same
\* deduplication applied to its result changes nothing.
C12_DedupIdempotent ==
    /\ (fcall.op \in {"drop_duplicates", "drop_duplicate_fields"} /\ fcall.err = "none")
          => FirstOccurrences(fcall.pre.df.rows, frame.df.rows, DedupKey)
    /\ fcall.op \in {"drop_duplicates_again", "drop_duplicate_fields_again"}
          => /\ fcall.err = "none"
             /\ frame.df = fcall.pre.df

\* a second deduplication of a frame of three rows whose first deduplication
\* removed the third, which repeats an earlier row and differs from the second
C12_Witness ==
    /\ fcall.op \in {"drop_duplicates_again", "drop_duplicate_fields_again"}
    /\ Len(fcall.data.rows) = 3
    /\ Len(frame.df.rows) = 2
    /\ fcall.data.rows[3] # fcall.data.rows[2]
    /\ frame.df.rows = SubSeq(fcall.data.rows, 1, 2)

-----------------------------------------------------------------------------
(* Claims on the pivot                                                     *)

\* the long-format rows the last pivot_data was given, and those of a method
PivotInput == fcall.pre.df.rows
RowsOfMethod(m) == {i \in DOMAIN PivotInput : PivotInput[i]["method"] = m}
\* the (event_id, data_row_id) tuples of a method; a row without a data row
\* names an attribute, not a tuple
TuplesOfMethod(m) ==
    {<<PivotInput[i]["event_id"], PivotInput[i]["data_row_id"]>> :
       i \in {j \in RowsOfMethod(m) : PivotInput[j]["data_row_id"] # Null}}

\* C13: pivot_data of a method_data frame whose rows belong to k methods with
\* disjoint attribute names gives k frames, one a method; the columns of each
\* are the index columns and the (cleaned) attribute names of its method, and
\* its rows are as many as the distinct (event_id, data_row_id) of the method.
C13_GroupedPivotPartitions ==
    (fcall.op = "pivot_data" /\ fcall.err = "none" /\ frame.name = "method_data") =>
       LET methods == {PivotInput[i]["method"] : i \in DOMAIN PivotInput}
       IN  /\ Len(frame.pivot) = Cardinality(methods)
           /\ \A m \in methods :
                 \E k \in DOMAIN frame.pivot :
                    /\ frame.pivot[k].name = JoinChars(normalize_string(m))
                    /\ frame.pivot[k].df.cols =
                          {ColText("event_id"), ColText("data_row_id")}
                             \cup {normalize_string(PivotInput[i]["field_name"]) :
                                     i \in RowsOfMethod(m)}
                    /\ Len(frame.pivot[k].df.rows) = Cardinality(TuplesOfMethod(m))

\* the attributes of the rows in whose rows the declared type is Long and the
\* value a text of digits
LongAttrs ==
    {a \in {PivotInput[i]["field_name"] : i \in DOMAIN PivotInput} :
       \A i \in DOMAIN PivotInput :
          PivotInput[i]["field_name"] = a =>
             /\ JoinChars(PivotInput[i]["data_type"]) = "Long"
             /\ IsIntText(PivotInput[i]["data_value"])}

\* C14: the frame pivot_data makes of event_detail holds an attribute declared
\* Long, with digits as its value text, in a column of the integer type.
C14_TypedPivotOutput ==
    (fcall.op = "pivot_data" /\ fcall.err = "none" /\ frame.name = "event_detail") =>
       \A a \in LongAttrs :
          frame.pivot[1].df.dtypes[normalize_string(a)] = "int64"

\* C25: an XMLFrame either has no pivot list and holds its rows, or has a
\* pivot list and no rows of its own; only pivot_data sets the pivot list, and
\* after a pivot_data that succeeded, grouped or simple, the rows the frame
\* had before are no longer in it.
C25_RowsOrPivoted ==
    frame # NoFrame =>
        /\ ~frame.pivoted => frame.df = fcall.data
        /\ frame.pivoted => (fcall.op = "pivot_data" /\ fcall.err = "none")
        /\ frame.pivoted => frame.df = EmptyDF
        /\ (fcall.op = "pivot_data" /\ fcall.err = "none") => frame.pivoted

\* C26: in the grouped mode of pivot_data of ffi_reader/base.py an all-null
\* column is made for an attribute of a method only when the attribute occurs
\* in no row of the method that has a data row; the cell of an attribute and a
\* data row that has a value keeps that value (cast by its declared type).
C26_NullColumnsOnlyForDatalessAttributes ==
    (/\ fcall.op = "pivot_data"
     /\ fcall.err = "none"
     /\ frame.lib = "ffi_reader"
     /\ frame.name = "method_data") =>
       \A i \in DOMAIN PivotInput :
          PivotInput[i]["data_row_id"] # Null =>
             \A k \in DOMAIN frame.pivot :
                frame.pivot[k].name = JoinChars(normalize_string(PivotInput[i]["method"])) =>
                   \A r \in DOMAIN frame.pivot[k].df.rows :
                      (/\ frame.pivot[k].df.rows[r][ColText("event_id")] =
                            PivotInput[i]["event_id"]
                       /\ frame.pivot[k].df.rows[r][ColText("data_row_id")] =
                            PivotInput[i]["data_row_id"]) =>
                         frame.pivot[k].df.rows[r][normalize_string(PivotInput[i]["field_name"])]
                            = CastCell(PivotInput[i]["data_value"],
                                       DfType(PivotInput[i]["data_type"])).val

-----------------------------------------------------------------------------
(* Claims on the construction of an FFIFile                                *)

\* the table of self._tables under a key, and whether there is one
HasOutput(key) == \E i \in DOMAIN ffi.tables : ffi.tables[i].key = key
Output(key) == ffi.tables[CHOOSE i \in DOMAIN ffi.tables : ffi.tables[i].key = key].frame
\* the root tag of the document carries a namespace
Namespaced == ffi.doc.tag[1] = "{"
\* a document whose events, plots and admin units are linked, so that the
\* synthetic keys can be derived
Linked == ffi.doc.links \in {"one", "two"}

\* C15: a document without any element of one required record type (other
\* than Schema_Version) is ingested: _parse_data binds the name to an empty
\* table and the construction goes on.
C15_EmptyTypesTolerated ==
    (/\ ffi.pc \notin {"none", "_parse_data"}
     /\ Namespaced /\ Linked
     /\ ffi.doc.empty \notin {"none", "Schema_Version"}) =>
       /\ ffi.err = "none"
       /\ ffi.doc.empty \in DOMAIN ffi.data_map
       /\ ffi.data_map[ffi.doc.empty].rows = <<>>

\* C16: for a document whose root tag has no namespace, or which has no
\* Schema_Version element, the construction never gets to the staging tables
\* or the output tables: it is at _parse_data or has failed, with no staging
\* frame and no table.
C16_MissingVersionOrNamespaceFatal ==
    (ffi.pc # "none" /\ (~Namespaced \/ ffi.doc.records["Schema_Version"] = <<>>)) =>
       /\ ffi.pc \in {"_parse_data", "failed"}
       /\ ~Namespaced => ffi.pc = "failed"
       /\ ffi.base = <<>>
       /\ ffi.tables = <<>>
\* a construction that failed in _parse_data for the lack of a Schema_Version
C16_Witness ==
    /\ ffi.pc = "failed" /\ ffi.err = "ValueError"
    /\ Namespaced
    /\ ffi.doc.empty = "Schema_Version"
    /\ "MacroPlot" \in DOMAIN ffi.data_map

\* the methods of the document that have populated data: those of the rows of
\* the attribute staging frame that carry a data row
PopulatedMethods ==
    {ffi.base.attr_data.df.rows[i]["Method_Name"] :
       i \in {j \in DOMAIN ffi.base.attr_data.df.rows :
                ffi.base.attr_data.df.rows[j]["AttributeData_DataRow_ID"] # Null}}
FramesNamed(n) == {i \in DOMAIN ffi.tables : ffi.tables[i].frame.name = n}

\* C17: for a well-formed document with N >= 0 populated methods, get_tables
\* gives one frame for each of the ten names of table_list and N more, one a
\* method, named normalize_string of the method name.
C17_OutputTableSet ==
    (/\ ffi.pc \in {"failed", "getters", "constructed"}
     /\ ffi.base # <<>>) =>
       /\ ffi.pc # "failed"
       /\ Len(GetTables(ffi)) = Len(table_list) + Cardinality(PopulatedMethods)
       /\ \A k \in DOMAIN table_list : Cardinality(FramesNamed(table_list[k])) = 1
       /\ \A m \in PopulatedMethods :
             Cardinality(FramesNamed(JoinChars(normalize_string(m)))) = 1

\* the elements of the document: its events, and the plot each refers to
DocEvents == ffi.doc.records["SampleEvent"]
DocPlots == ffi.doc.records["MacroPlot"]
RowsWhere(key, col, v) ==
    {i \in DOMAIN Output(key).df.rows : Output(key).df.rows[i][col] = v}

C28_OnePlotRowPerPlot ==
    ffi.pc \in {"getters", "constructed"} =>
       /\ Len(Output("plot").df.rows) = Len(DocPlots)
       /\ \A p \in DOMAIN DocPlots :
             Cardinality(RowsWhere("plot", "plot_name", DocPlots[p]["MacroPlot_Name"])) = 1

\* the number of separators in a key
Dashes(id) == Cardinality({k \in DOMAIN id : id[k] = "-"})

-----------------------------------------------------------------------------
(* Claims on the projection                                                *)

\* C7: for every list or rename-mapping, each requested column that is absent
\* from the source is in the result (under the name the mapping gives it) a
\* column that is null in every row, the result has as many rows as the source,
\* and no error is raised.
C7_ProjectionDefaulting ==
    fcall.op = "getitem" =>
        /\ fcall.err = "none"
        /\ Len(fcall.res.df.rows) = Len(fcall.pre.df.rows)
        /\ \A c \in fcall.req.cols \ fcall.pre.df.cols :
              /\ fcall.req.to[c] \in fcall.res.df.cols
              /\ \A i \in DOMAIN fcall.res.df.rows :
                    fcall.res.df.rows[i][fcall.req.to[c]] = Null

\* a mapping asked of a two-row source that lacks one of its columns and has
\* another
C7_Witness ==
    /\ fcall.op = "getitem"
    /\ fcall.req.kind = "dict"
    /\ fcall.req.cols \ fcall.pre.df.cols # {}
    /\ fcall.req.cols \cap fcall.pre.df.cols # {}
    /\ Len(fcall.pre.df.rows) = 2
    /\ Len(fcall.res.df.rows) = 2

\* C21: a projection by a list or by a mapping returns a new frame and leaves
\* the frame it was asked of with the columns and the rows it had, also when
\* requested columns are absent from it.
C21_ProjectionLeavesSource ==
    fcall.op = "getitem" =>
        /\ fcall.err = "none"
        /\ frame.df.cols = fcall.pre.df.cols
        /\ frame.df.rows = fcall.pre.df.rows

-----------------------------------------------------------------------------
(* Claims on the construction of an XMLFrame                               *)

\* the roles the automatic steps of the constructor apply to
StepRoles == {"plot", "sampling_event", "monitoring_status", "event_detail",
              "method_data"}

\* C22: the constructor of ffi_reader/base.py, given a name that is none of
\* plot, sampling_event, monitoring_status, event_detail, method_data and
\* skip_id false, raises nothing and keeps the columns and the rows it was
\* given: no key, no derived status column, no FieldName or DataValue.
C22_OtherRolesUntouched ==
    (/\ fcall.op = "init"
     /\ fcall.pre.lib = "ffi_reader"
     /\ fcall.pre.name \notin StepRoles) =>
        /\ fcall.err = "none"
        /\ frame.name = fcall.pre.name
        /\ frame.df = fcall.data
        /\ frame.columns = fcall.data.cols
        /\ frame.df.cols \cap (DerivedStatusCols
                                \cup {"PlotID", "EventID", "FieldName", "DataValue"}) = {}

\* a frame named project that carries the four fields of a monitoring status
C22_Witness ==
    /\ fcall.op = "init"
    /\ fcall.pre.lib = "ffi_reader"
    /\ fcall.pre.name = "project"
    /\ fcall.data.cols = Range(StatusFields)
    /\ Len(fcall.data.rows) = 2
    /\ frame.df = fcall.data

\* the decomposition has run on the frame of the call
Decomposed ==
    /\ fcall.op = "init"
    /\ fcall.err = "none"
    /\ fcall.pre.lib = "ffi_reader"
    /\ DerivedStatusCols \subseteq frame.df.cols
    /\ DerivedStatusCols \cap fcall.data.cols = {}

\* C23: whenever the decomposition runs on a frame, the monitoring_type of
\* every row is "Treatment", whatever its prefix, base, suffix and default
\* fields hold; "Measure", "Burn" and the empty text are never produced.
C23_TypeAlwaysTreatment ==
    Decomposed =>
        \A i \in DOMAIN frame.df.rows :
           frame.df.rows[i]["monitoring_type"] = <<"T","r","e","a","t","m","e","n","t">>

\* a decomposed event row whose fields name a measure and a burn and no
\* treatment
C23_Witness ==
    /\ Decomposed
    /\ fcall.pre.name = "sampling_event"
    /\ \E i \in DOMAIN fcall.data.rows :
          /\ fcall.data.cols = Range(StatusFields)
          /\ fcall.data.rows[i]["MonitoringStatus_Base"] = <<"M", "e", "a", "s", "u", "r", "e">>
          /\ fcall.data.rows[i]["SampleEvent_DefaultMonitoringStatus"] = <<"b", "u", "r", "n">>
          /\ frame.df.rows[i]["monitoring_type"] = <<"T","r","e","a","t","m","e","n","t">>

\* the digit runs of a field of a row, none when the field is absent or
\* missing
FieldRuns(row, col) ==
    IF col \in DOMAIN row /\ row[col] # Null THEN DigitRuns(row[col]) ELSE <<>>

\* the fields in the order of the search
TimeFieldOrder == <<"SampleEvent_DefaultMonitoringStatus", "MonitoringStatus_Prefix",
                    "MonitoringStatus_Suffix", "MonitoringStatus_Base">>

\* the first run of digits of the first field, in that order, that has one
SelectedRun(row) ==
    IF \A k \in DOMAIN TimeFieldOrder : FieldRuns(row, TimeFieldOrder[k]) = <<>>
    THEN <<>>
    ELSE FieldRuns(row, TimeFieldOrder[
             CHOOSE k \in DOMAIN TimeFieldOrder :
                /\ FieldRuns(row, TimeFieldOrder[k]) # <<>>
                /\ \A j \in 1..(k - 1) : FieldRuns(row, TimeFieldOrder[j]) = <<>>])[1]

\* C24: the time_frame of a decomposed row is "<N>year" for the first run of
\* digits N found when the fields are searched in the order default, prefix,
\* suffix, base, provided the run has at most two digits; it is the empty text
\* when that run is longer or when no field holds a digit.
C24_TimeFramePrecedence ==
    (Decomposed /\ fcall.pre.name = "sampling_event") =>
        \A i \in DOMAIN frame.df.rows :
           frame.df.rows[i]["time_frame"] =
              IF SelectedRun(fcall.data.rows[i]) # <<>>
                 /\ Len(SelectedRun(fcall.data.rows[i])) <= 2
              THEN SelectedRun(fcall.data.rows[i]) \o <<"y", "e", "a", "r">>
              ELSE <<>>

-----------------------------------------------------------------------------
(* Claims on the writes to the destination                                 *)

\* the table of the call before it and now, and the keys it held before
OldTable == wr.db0.tables[wr.name]
NewTable == db.tables[wr.name]
KeysBefore ==
    IF HasTable(wr.db0, wr.name) /\ CheckCol(wr.name) \in OldTable.cols
    THEN {OldTable.rows[i][CheckCol(wr.name)] : i \in DOMAIN OldTable.rows}
    ELSE {}
\* the rows the call has added to its table: _add_new_columns writes them
\* ahead of the old rows, the append after them
AddedRows ==
    IF ~HasTable(db, wr.name) THEN <<>>
    ELSE IF ~HasTable(wr.db0, wr.name) THEN NewTable.rows
    ELSE IF wr.path = "evolve"
    THEN SubSeq(NewTable.rows, 1, Len(NewTable.rows) - Len(OldTable.rows))
    ELSE SubSeq(NewTable.rows, Len(OldTable.rows) + 1, Len(NewTable.rows))

\* C1: when to_sql meets a table that lacks a column of the frame and
\* _add_new_columns runs to its commit, the table then has the union of the old
\* columns and the frame's, every row of the frame (as the existence filter
\* left it) with the frame's values, and every row it held before with its old
\* values and null in the columns that were missing.
C1_SchemaEvolutionPreservesData ==
    (wr.path = "evolve" /\ wr.pc = "done" /\ wr.err = "none") =>
        /\ HasTable(db, wr.name)
        /\ NewTable.cols = OldTable.cols \cup wr.df1.cols
        /\ Len(NewTable.rows) = Len(wr.df1.rows) + Len(OldTable.rows)
        /\ \A i \in DOMAIN wr.df1.rows : \A c \in NewTable.cols :
              NewTable.rows[i][c] =
                 IF c \in wr.df1.cols THEN wr.df1.rows[i][c] ELSE Null
        /\ \A i \in DOMAIN OldTable.rows : \A c \in NewTable.cols :
              NewTable.rows[Len(wr.df1.rows) + i][c] =
                 IF c \in OldTable.cols THEN OldTable.rows[i][c] ELSE Null

\* a committed evolution of a table that had rows and a column the frame lacks
C1_Witness ==
    /\ wr.path = "evolve"
    /\ wr.pc = "done"
    /\ wr.err = "none"
    /\ Len(OldTable.rows) > 0
    /\ Len(wr.df1.rows) > 0
    /\ OldTable.cols \ wr.df1.cols # {}
    /\ wr.df1.cols \ OldTable.cols # {}
    /\ Len(NewTable.rows) = Len(wr.df1.rows) + Len(OldTable.rows)

\* the destination a complete evolution leaves
EvolvedDb ==
    PutTable(wr.db0, wr.name,
             [cols |-> OldTable.cols \cup wr.df1.cols,
              rows |-> RowsOver(wr.df1.rows, OldTable.cols \cup wr.df1.cols)
                       \o RowsOver(OldTable.rows, OldTable.cols \cup wr.df1.cols),
              deps |-> OldTable.deps])

\* C2: whatever statement of _add_new_columns an interruption comes after, the
\* destination that is visible is the complete old table or the complete new
\* one: no table is ever visible under its backup name only, nor the new table
\* without the old rows.
C2_EvolutionAtomic ==
    /\ \A n \in WriteNames : ~HasTable(db, BackupName(n))
    /\ wr.path = "evolve" =>
          \/ db = wr.db0
          \/ wr.pc = "done" /\ db = EvolvedDb

\* an interruption after the rename and before the end of the copy-back, of
\* the evolution of a table that had rows
C2_Witness ==
    /\ wr.path = "evolve"
    /\ wr.pc = "failed"
    /\ wr.err = "Interrupted"
    /\ wr.at \in {"write", "copy"}
    /\ Len(OldTable.rows) > 0
    /\ db = wr.db0

\* C3: for a frame named species, monitoring_status or admin_unit, to_sql adds
\* no row whose natural key was in the table when the call started; for a frame
\* of another name no row is filtered out; in both generations of the library.
C3_ExistenceFilter ==
    wr.pc = "done" =>
        /\ wr.name \in FilterNames =>
              \A i \in DOMAIN AddedRows :
                 AddedRows[i][CheckCol(wr.name)] \notin KeysBefore
        /\ wr.name \notin FilterNames => wr.df1 = wr.df0

\* C4: when the lookup of _filter_exists raises, whatever the database error,
\* to_sql keeps every row of the frame and goes on to the append; the error
\* does not reach the caller.
C4_LookupFailureNotFatal ==
    (wr.pc # "idle" /\ wr.lookup # "none") =>
        /\ wr.path \in {"skip", "append", "evolve"}
        /\ wr.df1 = wr.df0

\* C5: a to_sql call whose append does not fail on a column mismatch leaves
\* every table with the columns it had and with the rows it had, unchanged and
\* in place; when the frame has no row after the filter the destination is
\* unchanged.
C5_PureAppend ==
    (wr.pc = "done" /\ wr.path \in {"raised", "skip", "append"}) =>
        /\ \A n \in DOMAIN wr.db0.tables :
              /\ HasTable(db, n)
              /\ db.tables[n].cols = wr.db0.tables[n].cols
              /\ db.tables[n].deps = wr.db0.tables[n].deps
              /\ Len(db.tables[n].rows) >= Len(wr.db0.tables[n].rows)
              /\ SubSeq(db.tables[n].rows, 1, Len(wr.db0.tables[n].rows))
                    = wr.db0.tables[n].rows
        /\ Len(wr.df1.rows) = 0 => db = wr.db0

\* an append of two rows to a table that had rows
C5_Witness ==
    /\ wr.pc = "done"
    /\ wr.path = "append"
    /\ wr.err = "none"
    /\ HasTable(wr.db0, wr.name)
    /\ Len(OldTable.rows) > 0
    /\ Len(NewTable.rows) = Len(OldTable.rows) + 2

-----------------------------------------------------------------------------
(* Claims on the drivers                                                   *)

WritesOf(k) == SelectSeq(drv.written, LAMBDA w : w.doc = k)

StepsDone == Range(wr.steps)

\* C20: _add_new_columns runs, inside one transaction, each of these once and
\* in this order: detach the dependents, rename the table to <table>_backup,
\* write the null-filled frame as the new table, copy the backup's rows in by
\* the original column list, drop the backup, reattach the dependents, commit.
\* The backup is there until the copy has been made, the dependents come back
\* only onto a table that exists, and nobody outside the transaction sees the
\* backup or the new table before the commit.
C20_EvolutionStepOrder ==
    wr.path = "evolve" =>
        /\ Len(wr.steps) <= Len(EvolvePcs)
        /\ wr.steps = SubSeq(EvolvePcs, 1, Len(wr.steps))
        /\ wr.pc = "done" => wr.steps = EvolvePcs
        /\ wr.pc \in Range(EvolvePcs) =>
              /\ wr.pc = EvolvePcs[Len(wr.steps) + 1]
              /\ db = wr.db0
        /\ ("rename" \in StepsDone /\ "copy" \notin StepsDone /\ wr.pc # "failed") =>
              HasTable(wr.tx, BackupName(wr.name))
        /\ "drop" \in StepsDone =>
              /\ "copy" \in StepsDone
              /\ ~HasTable(wr.tx, BackupName(wr.name))
              /\ Len(wr.tx.tables[wr.name].rows) =
                    Len(wr.df1.rows) + Len(OldTable.rows)
        /\ "reattach" \in StepsDone =>
              /\ "write" \in StepsDone
              /\ HasTable(wr.tx, wr.name)
              /\ wr.tx.tables[wr.name].deps = OldTable.deps

\* an evolution of a table with rows and a dependent view has run to its
\* commit
C20_Witness ==
    /\ wr.path = "evolve"
    /\ wr.pc = "done"
    /\ wr.steps = EvolvePcs
    /\ Len(OldTable.rows) > 0
    /\ OldTable.deps
    /\ HasTable(db, wr.name)
    /\ db.tables[wr.name].deps
    /\ ~HasTable(db, BackupName(wr.name))

\* C29: from an empty destination, after any to_sql calls of
\* ffi_reader/base.py on species, monitoring_status and admin_unit frames, each
\* value of the natural key (symbol, monitoring_status, admin_unit) is in at
\* most one row of its table.
C29_ReferenceKeysUnique ==
    wr.lib # "legacy" =>
       \A name \in FilterNames :
          (HasTable(db, name) /\ CheckCol(name) \in db.tables[name].cols) =>
             \A i \in DOMAIN db.tables[name].rows, j \in DOMAIN db.tables[name].rows :
                i # j => db.tables[name].rows[i][CheckCol(name)]
                            # db.tables[name].rows[j][CheckCol(name)]

=============================================================================
